---- MODULE Spec2Model ----
(***************************************************************************)
(* Support-session handlers of the support-hours tracker (routes/sessions  *)
(* over utils/database): POST /sessions/create, POST /sessions/:id/edit    *)
(* and POST /sessions/:id/delete acting on the support_sessions table.     *)
(*                                                                         *)
(* A time-of-day string of a request body is the sequence of its           *)
(* characters, a digit d written as the number d and ':' as Colon; ':'     *)
(* follows '9' in the character set, so the order of these numbers is the  *)
(* order JavaScript compares the characters in.                            *)
(***************************************************************************)
EXTENDS Integers, Sequences, FiniteSets, TLC

\* ------------------------------------------------------------- bounds
\* ids the store hands out to inserted sessions: 1..MaxSessions
MaxSessions == 2

Colon == 10

Procs == {"p1", "p2"}
Workers == {"w1", "w2"}
Dates == {"d1", "d2"}
\* "09:00", "10:00", "11:00"
PaddedTimes ==
    { <<0, 9, Colon, 0, 0>>, <<1, 0, Colon, 0, 0>>, <<1, 1, Colon, 0, 0>> }
\* the same with "9:00" and, refused by the validator, "24:00"
TimeInputs == PaddedTimes \cup { <<9, Colon, 0, 0>>, <<2, 4, Colon, 0, 0>> }
\* 10 is below the validator's minimum
DurationInputs == {10, 60}

NoStatus == "absent"
NoId == 0
StatusValues == {"planned", "completed", "cancelled", "no_show"}
Ids == 1..MaxSessions

\* the fields of req.body the handlers below read
BodiesOf(W, D, T, M, S) ==
    [support_worker_id : W, session_date : D, start_time : T, end_time : T,
     duration_minutes : M, status : S]

\* request bodies of one worker's day: every form of time string, valid or not
Bodies ==
    BodiesOf({"w1"}, {"d1"}, TimeInputs, DurationInputs,
             {"planned", "cancelled", NoStatus})
\* request bodies of concurrent creates for one worker and date
RaceBodies == BodiesOf({"w1"}, {"d1"}, PaddedTimes, {60}, {"planned", "cancelled"})

\* ------------------------------------------------------------- validators
\* body('start_time').matches(/^([01]?[0-9]|2[0-3]):[0-5][0-9]$/)
MatchesTime(s) ==
    \/ /\ Len(s) = 5
       /\ \/ s[1] \in 0..1 /\ s[2] \in 0..9
          \/ s[1] = 2 /\ s[2] \in 0..3
       /\ s[3] = Colon /\ s[4] \in 0..5 /\ s[5] \in 0..9
    \/ /\ Len(s) = 4
       /\ s[1] \in 0..9
       /\ s[2] = Colon /\ s[3] \in 0..5 /\ s[4] \in 0..9

\* body('duration_minutes').isInt({ min: 15, max: 480 })
DurationOk(d) == d \in 15..480

\* the validator chain of POST /create: status is optional
ValidCreate(b) ==
    /\ MatchesTime(b.start_time)
    /\ MatchesTime(b.end_time)
    /\ DurationOk(b.duration_minutes)
    /\ (b.status = NoStatus \/ b.status \in StatusValues)

\* the validator chain of POST /:id/edit: status is required
ValidEdit(b) ==
    /\ MatchesTime(b.start_time)
    /\ MatchesTime(b.end_time)
    /\ DurationOk(b.duration_minutes)
    /\ b.status \in StatusValues

\* a < b on JavaScript strings: the first differing character decides, and a
\* proper prefix is the smaller
RECURSIVE StrLess(_, _)
StrLess(a, b) ==
    IF b = <<>> THEN FALSE
    ELSE IF a = <<>> THEN TRUE
    ELSE IF Head(a) # Head(b) THEN Head(a) < Head(b)
    ELSE StrLess(Tail(a), Tail(b))

\* request bodies over every worker, date and status, their times in order
FilterBodies ==
    { b \in BodiesOf(Workers, Dates, PaddedTimes, {60}, StatusValues) :
        StrLess(b.start_time, b.end_time) }

\* req.body.start_time >= req.body.end_time
StartNotBeforeEnd(b) == ~StrLess(b.start_time, b.end_time)

\* the value of a TIME column the store keeps for an accepted time string,
\* in minutes after midnight
ToMinutes(s) ==
    IF Len(s) = 5 THEN (s[1] * 10 + s[2]) * 60 + s[4] * 10 + s[5]
    ELSE s[1] * 60 + s[3] * 10 + s[4]

\* the row the INSERT and the UPDATE write for a body
Row(b, status) ==
    [support_worker_id |-> b.support_worker_id,
     session_date |-> b.session_date,
     start_time |-> ToMinutes(b.start_time),
     end_time |-> ToMinutes(b.end_time),
     duration_minutes |-> b.duration_minutes,
     status |-> status]

\* the table's own constraints on a row
SchemaAllows(row) == TRUE

VARIABLES
    sessions,   \* support_sessions: id -> row, for the stored ids
    nextId,     \* the next id the store hands out
    pc,         \* per request handler: "idle", "received", or "insert" between
                \* the create handler's two queries
    req,        \* per request handler: req.body of the create request in flight
    response,   \* the response sent last: [op, kind, id]
    calendar,   \* the calendar page rendered last: its request and its data
    report,     \* the report computed last: the store it read and its rows
    handler,    \* a session request whose repository calls may fail: its
                \* request, its place in the handler, the responses sent
    gate,       \* a request at the access middleware: the request, what the
                \* middleware answered, the tables the route went on to write
    user,       \* the row of one user: failed_login_attempts, locked_until
    clock,      \* the time, in minutes
    login,      \* per client: the login request in flight and the row it read
    properties, \* properties: id -> is_active
    residents   \* residents: id -> [property_id, is_active]

\* what the login, property and resident routes and the middleware write
adminVars == <<handler, gate, user, clock, login, properties, residents>>
vars == <<sessions, nextId, pc, req, response, calendar, report,
          handler, gate, user, clock, login, properties, residents>>
\* what the other routes write; the session handlers leave it
readVars == <<calendar, report, handler, gate, user, clock, login, properties, residents>>

NoBody == [support_worker_id |-> "none"]
NoResponse == [op |-> "none", kind |-> "none", id |-> NoId]
NoCalendar == [op |-> "none"]
NoReport == [op |-> "none"]
NoHandler == [op |-> "none", id |-> NoId, body |-> NoBody, client |-> "browser",
              at |-> "idle", failed |-> FALSE, sent |-> <<>>]
NoGate == [op |-> "none"]
\* NULL in a timestamp column
NullTime == 0 - 1
NoUser == [id |-> "none", failed_login_attempts |-> 0, locked_until |-> NullTime]
NoLogin ==
    [request |-> [p \in Procs |-> [at |-> "idle", correct |-> FALSE, seen |-> NoUser]],
     streak |-> 0, sinceLock |-> 0, lastLock |-> 0]
\* nothing is going on at the login, property and resident routes
AdminIdle ==
    /\ handler = NoHandler
    /\ gate = NoGate
    /\ user = NoUser
    /\ clock = 0
    /\ login = NoLogin
    /\ properties = <<>>
    /\ residents = <<>>

Stored == DOMAIN sessions
Active(row) == row.status \notin {"cancelled", "no_show"}

\* the three-clause time condition of the conflict SELECT; st and et are $3, $4
TimeClause(row, st, et) ==
    \/ row.start_time <= st /\ row.end_time > st
    \/ row.start_time < et /\ row.end_time >= et
    \/ row.start_time >= st /\ row.end_time <= et

\* the conflict SELECT without its status condition
conflictCheckAnyStatus(b) ==
    { id \in Stored :
        /\ sessions[id].support_worker_id = b.support_worker_id
        /\ sessions[id].session_date = b.session_date
        /\ TimeClause(sessions[id], ToMinutes(b.start_time), ToMinutes(b.end_time)) }

\* the rows of the conflict SELECT of POST /create
conflictCheck(b) ==
    { id \in Stored :
        /\ sessions[id].support_worker_id = b.support_worker_id
        /\ sessions[id].session_date = b.session_date
        /\ sessions[id].status \notin {"cancelled", "no_show"}
        /\ TimeClause(sessions[id], ToMinutes(b.start_time), ToMinutes(b.end_time)) }

\* the handlers in the middle of a request
InFlight == {p \in Procs : pc[p] # "idle"}

Init ==
    /\ sessions = <<>>
    /\ nextId = 1
    /\ pc = [p \in Procs |-> "idle"]
    /\ req = [p \in Procs |-> NoBody]
    /\ response = NoResponse
    /\ calendar = NoCalendar
    /\ report = NoReport
    /\ AdminIdle

Respond(op, kind, id) ==
    response' = [op |-> op, kind |-> kind, id |-> id]

\* the create handler answers the body with a form and an error message
CreateRejects(b) ==
    \/ ~ValidCreate(b)
    \/ StartNotBeforeEnd(b)
    \/ conflictCheck(b) # {}

\* POST /create arrives with body b; a request that will insert is taken
\* only while the store has an id left for it
CreateReceive(p, b) ==
    /\ pc[p] = "idle"
    /\ CreateRejects(b) \/ nextId + Cardinality(InFlight) <= MaxSessions
    /\ pc' = [pc EXCEPT ![p] = "received"]
    /\ req' = [req EXCEPT ![p] = b]
    /\ UNCHANGED <<sessions, nextId, response, readVars>>

\* an answer with the form that also empties the table
createErrorDroppingRows(p, kind) ==
    /\ Respond("create", kind, NoId)
    /\ pc' = [pc EXCEPT ![p] = "idle"]
    /\ req' = [req EXCEPT ![p] = NoBody]
    /\ sessions' = <<>>
    /\ UNCHANGED <<nextId, readVars>>

\* the create handler's answer with the form and an error message
CreateError(p, kind) ==
    /\ Respond("create", kind, NoId)
    /\ pc' = [pc EXCEPT ![p] = "idle"]
    /\ req' = [req EXCEPT ![p] = NoBody]
    /\ UNCHANGED <<sessions, nextId, readVars>>

\* POST /create up to the await of the INSERT: validation, the start/end
\* check, the conflict SELECT
CreateCheck(p) ==
    /\ pc[p] = "received"
    /\ IF ~ValidCreate(req[p])
       THEN CreateError(p, "invalid")
       ELSE IF StartNotBeforeEnd(req[p])
       THEN CreateError(p, "order")
       ELSE IF conflictCheck(req[p]) # {}
       THEN CreateError(p, "conflict")
       ELSE /\ pc' = [pc EXCEPT ![p] = "insert"]
            /\ UNCHANGED <<sessions, nextId, req, response, readVars>>

\* POST /create: the INSERT and the redirect to the new session
CreateInsert(p) ==
    /\ pc[p] = "insert"
    /\ LET row == Row(req[p], IF req[p].status = NoStatus THEN "planned" ELSE req[p].status)
       IN /\ SchemaAllows(row)
          /\ sessions' = [id \in Stored \cup {nextId} |->
                            IF id = nextId THEN row ELSE sessions[id]]
    /\ nextId' = nextId + 1
    /\ pc' = [pc EXCEPT ![p] = "idle"]
    /\ req' = [req EXCEPT ![p] = NoBody]
    /\ Respond("create", "redirect", nextId)
    /\ UNCHANGED readVars

\* POST /:id/edit: validation, then the UPDATE of the row with that id
EditSession(p, id, b) ==
    /\ pc[p] = "idle"
    /\ IF ~ValidEdit(b)
       THEN /\ Respond("edit", "invalid", NoId)
            /\ UNCHANGED <<sessions, nextId, pc, req, readVars>>
       ELSE /\ SchemaAllows(Row(b, b.status))
            /\ sessions' = [i \in Stored |->
                              IF i = id THEN Row(b, b.status) ELSE sessions[i]]
            /\ Respond("edit", "redirect", id)
            /\ UNCHANGED <<nextId, pc, req, readVars>>

\* POST /:id/delete
DeleteSession(p, id) ==
    /\ pc[p] = "idle"
    /\ sessions' = [i \in Stored \ {id} |-> sessions[i]]
    /\ Respond("delete", "redirect", NoId)
    /\ UNCHANGED <<nextId, pc, req, readVars>>

\* one client: each request is answered before the next is sent
Next ==
    \/ \E b \in Bodies : CreateReceive("p1", b)
    \/ CreateCheck("p1")
    \/ CreateInsert("p1")
    \/ \E id \in Ids, b \in Bodies : EditSession("p1", id, b)
    \/ \E id \in Ids : DeleteSession("p1", id)

Spec == Init /\ [][Next]_vars

\* one client creating and deleting sessions of every worker, date and status
NextFilter ==
    \/ \E b \in FilterBodies : CreateReceive("p1", b)
    \/ CreateCheck("p1")
    \/ CreateInsert("p1")
    \/ \E id \in Ids : DeleteSession("p1", id)

SpecFilter == Init /\ [][NextFilter]_vars

\* create requests of several clients, interleaved at the handler's awaits
NextRace ==
    \/ \E p \in Procs, b \in RaceBodies : CreateReceive(p, b)
    \/ \E p \in Procs : CreateCheck(p)
    \/ \E p \in Procs : CreateInsert(p)

SpecRace == Init /\ [][NextRace]_vars

TypeOK ==
    /\ nextId \in 1..(MaxSessions + 1)
    /\ Stored \subseteq Ids

\* ------------------------------------------------------------- failing repository calls
\* The session handlers once more, with repository calls that may fail. The
\* calls of a handler: the lookups for the form (getAllProperties,
\* getAllResidents, getAllSupportWorkers, getSessionById), the conflict SELECT
\* and the write (INSERT, UPDATE or DELETE).
RepositoryCalls == {"lookup", "select", "write"}
\* the client: a browser (Accept: text/html), a script asking for JSON (or
\* sending X-Requested-With), a client that sends no Accept header
Clients == {"browser", "json", "bare"}
\* what the framework does with the rejected promise of an async handler:
\* nothing (the request stays open), or it hands the error to the error
\* middleware of server.js
Frameworks == {"ignores", "forwards"}
\* the kinds of response that tell the caller of a failure
FailureKinds == {"form_failed", "json_error", "error_page"}

FaultBodies ==
    { b \in Bodies : /\ b.start_time \in { <<0, 9, Colon, 0, 0>>, <<1, 0, Colon, 0, 0>> }
                     /\ b.end_time \in { <<0, 9, Colon, 0, 0>>, <<1, 0, Colon, 0, 0>> }
                     /\ b.status # "cancelled" }

\* a request arrives; a create is taken only while the store has an id left
Receive(op, id, b, client) ==
    /\ handler.op = "none" \/ handler.at = "done"
    /\ op = "create" => nextId <= MaxSessions
    /\ handler' = [op |-> op, id |-> id, body |-> b, client |-> client,
                   at |-> "try", failed |-> FALSE, sent |-> <<>>]
    /\ UNCHANGED <<sessions, nextId, pc, req, response, calendar, report,
                   gate, user, clock, login, properties, residents>>

\* everything but the handler, the table and the response
faultFrame == <<pc, req, calendar, report, gate, user, clock, login, properties, residents>>

\* res.render / res.redirect / res.json: the handler returns
Send(kind, id) ==
    /\ handler' = [handler EXCEPT !.at = "done", !.sent = Append(@, kind)]
    /\ Respond(handler.op, kind, id)
\* an await rejects or an expression throws: control passes to the catch block
Throw(repository) ==
    /\ handler' = [handler EXCEPT !.at = "catch", !.failed = @ \/ repository]
    /\ UNCHANGED response
\* the catch block throws: the promise of the handler is rejected
Reject(repository) ==
    /\ handler' = [handler EXCEPT !.at = "rejected", !.failed = @ \/ repository]
    /\ UNCHANGED response

\* the form with an error message, after the lookups it needs
SendForm(kind, failing) ==
    IF "lookup" \in failing THEN Throw(TRUE) ELSE Send(kind, NoId)

\* POST /create: the try block
TryCreate(failing) ==
    /\ handler.op = "create" /\ handler.at = "try"
    /\ IF ~ValidCreate(handler.body)
       THEN SendForm("invalid", failing) /\ UNCHANGED <<sessions, nextId>>
       ELSE IF StartNotBeforeEnd(handler.body)
       THEN SendForm("order", failing) /\ UNCHANGED <<sessions, nextId>>
       ELSE IF "select" \in failing
       THEN Throw(TRUE) /\ UNCHANGED <<sessions, nextId>>
       ELSE IF conflictCheck(handler.body) # {}
       THEN SendForm("conflict", failing) /\ UNCHANGED <<sessions, nextId>>
       ELSE IF "write" \in failing
       THEN Throw(TRUE) /\ UNCHANGED <<sessions, nextId>>
       ELSE /\ sessions' = [id \in Stored \cup {nextId} |->
                              IF id = nextId
                              THEN Row(handler.body,
                                       IF handler.body.status = NoStatus THEN "planned"
                                       ELSE handler.body.status)
                              ELSE sessions[id]]
            /\ nextId' = nextId + 1
            /\ Send("redirect", nextId)
    /\ UNCHANGED faultFrame

\* POST /:id/edit: the try block
TryEdit(failing) ==
    /\ handler.op = "edit" /\ handler.at = "try"
    /\ IF ~ValidEdit(handler.body)
       THEN SendForm("invalid", failing) /\ UNCHANGED sessions
       ELSE IF "write" \in failing
       THEN Throw(TRUE) /\ UNCHANGED sessions
       ELSE /\ sessions' = [i \in Stored |->
                              IF i = handler.id THEN Row(handler.body, handler.body.status)
                              ELSE sessions[i]]
            /\ Send("redirect", handler.id)
    /\ UNCHANGED <<nextId, faultFrame>>

\* the catch blocks of POST /create and POST /:id/edit: the lookups, the form
CatchForm(failing) ==
    /\ handler.op \in {"create", "edit"} /\ handler.at = "catch"
    /\ IF "lookup" \in failing THEN Reject(TRUE) ELSE Send("form_failed", NoId)
    /\ UNCHANGED <<sessions, nextId, faultFrame>>

\* POST /:id/delete: the try block; req.headers.accept.indexOf throws where
\* the request has no Accept header and is not an XMLHttpRequest
TryDelete(failing) ==
    /\ handler.op = "delete" /\ handler.at = "try"
    /\ IF "write" \in failing
       THEN Throw(TRUE) /\ UNCHANGED sessions
       ELSE /\ sessions' = [i \in Stored \ {handler.id} |-> sessions[i]]
            /\ IF handler.client = "json" THEN Send("json_ok", NoId)
               ELSE IF handler.client = "bare" THEN Throw(FALSE)
               ELSE Send("redirect_list", NoId)
    /\ UNCHANGED <<nextId, faultFrame>>

\* the catch block of POST /:id/delete
CatchDelete ==
    /\ handler.op = "delete" /\ handler.at = "catch"
    /\ IF handler.client = "json" THEN Send("json_error", NoId)
       ELSE IF handler.client = "bare" THEN Reject(FALSE)
       ELSE Send("redirect_list", NoId)
    /\ UNCHANGED <<sessions, nextId, faultFrame>>

\* the rejected promise of the handler
Rejected(framework) ==
    /\ handler.at = "rejected"
    /\ IF framework = "forwards" THEN Send("error_page", NoId)
       ELSE handler' = [handler EXCEPT !.at = "open"] /\ UNCHANGED response
    /\ UNCHANGED <<sessions, nextId, faultFrame>>

HandlerStep ==
    \/ \E failing \in SUBSET RepositoryCalls : TryCreate(failing)
    \/ \E failing \in SUBSET RepositoryCalls : TryEdit(failing)
    \/ \E failing \in SUBSET RepositoryCalls : CatchForm(failing)
    \/ \E failing \in SUBSET RepositoryCalls : TryDelete(failing)
    \/ CatchDelete
    \/ \E framework \in Frameworks : Rejected(framework)

NextFaults ==
    \/ \E b \in FaultBodies : Receive("create", NoId, b, "browser")
    \/ \E id \in Ids, b \in FaultBodies : Receive("edit", id, b, "browser")
    \/ \E id \in Ids, client \in Clients : Receive("delete", id, NoBody, client)
    \/ HandlerStep

\* a handler that has been called goes on running
SpecFaults == Init /\ [][NextFaults]_vars /\ WF_vars(HandlerStep)

\* ------------------------------------------------------------- access
\* req.session.user, absent or with one of the roles
Roles == {"admin", "viewer"}
NoSessionUser == [role |-> "none"]
SessionUsers == {NoSessionUser} \cup [role : Roles]

\* the middleware answers, or calls next()
wantsJson(client) == client = "json"
\* requireAuth; req.headers.accept.indexOf throws where there is no Accept header
requireAuth(sessionUser, client) ==
    IF sessionUser = NoSessionUser
    THEN IF client = "bare" THEN "error_page"
         ELSE IF wantsJson(client) THEN "401" ELSE "redirect_login"
    ELSE "next"
\* requireRole(roles)
requireRole(roles, sessionUser, client) ==
    IF sessionUser = NoSessionUser
    THEN IF client = "bare" THEN "error_page"
         ELSE IF wantsJson(client) THEN "401" ELSE "redirect_login"
    ELSE IF sessionUser.role \notin roles
    THEN IF client = "bare" THEN "error_page"
         ELSE IF wantsJson(client) THEN "403" ELSE "403_page"
    ELSE "next"
\* a middleware that lets every logged-in user pass
requireAnyUser(sessionUser, client) ==
    IF sessionUser = NoSessionUser THEN "redirect_login" ELSE "next"
\* requireAdmin = requireRole(['admin'])
requireAdmin(sessionUser, client) == requireRole({"admin"}, sessionUser, client)

\* the routes of the routers: the middleware in front of the handler, and the
\* table the handler writes
Route(router, method, path, guard, writes) ==
    [router |-> router, method |-> method, path |-> path, guard |-> guard,
     writes |-> writes]
PropertyRoutes ==
    { Route("properties", "GET", "/", "requireAuth", "none"),
      Route("properties", "GET", "/create", "requireAdmin", "none"),
      Route("properties", "GET", "/:id", "requireAuth", "none"),
      Route("properties", "POST", "/create", "requireAdmin", "properties"),
      Route("properties", "GET", "/:id/edit", "requireAdmin", "none"),
      Route("properties", "POST", "/:id/edit", "requireAdmin", "properties"),
      Route("properties", "POST", "/:id/delete", "requireAdmin", "properties"),
      Route("properties", "GET", "/:id/stats", "requireAuth", "none") }
ResidentRoutes ==
    { Route("residents", "GET", "/", "requireAuth", "none"),
      Route("residents", "GET", "/create", "requireAdmin", "none"),
      Route("residents", "POST", "/create", "requireAdmin", "residents"),
      Route("residents", "GET", "/:id", "requireAuth", "none"),
      Route("residents", "GET", "/:id/edit", "requireAdmin", "none"),
      Route("residents", "POST", "/:id/edit", "requireAdmin", "residents") }
SupportWorkerRoutes ==
    { Route("support-workers", "GET", "/", "requireAuth", "none"),
      Route("support-workers", "GET", "/create", "requireAdmin", "none"),
      Route("support-workers", "POST", "/create", "requireAdmin", "support_workers"),
      Route("support-workers", "GET", "/:id", "requireAuth", "none"),
      Route("support-workers", "GET", "/:id/edit", "requireAdmin", "none"),
      Route("support-workers", "POST", "/:id/edit", "requireAdmin", "support_workers") }
SessionRoutes ==
    { Route("sessions", "GET", "/", "requireAuth", "none"),
      Route("sessions", "GET", "/create", "requireAdmin", "none"),
      Route("sessions", "GET", "/:id", "requireAuth", "none"),
      Route("sessions", "POST", "/create", "requireAdmin", "support_sessions"),
      Route("sessions", "GET", "/:id/edit", "requireAdmin", "none"),
      Route("sessions", "POST", "/:id/edit", "requireAdmin", "support_sessions"),
      Route("sessions", "POST", "/:id/delete", "requireAdmin", "support_sessions"),
      Route("sessions", "GET", "/api/properties/:propertyId/residents", "requireAuth",
            "none") }
AuthRoutes ==
    { Route("auth", "GET", "/login", "none", "none"),
      Route("auth", "POST", "/login", "none", "users"),
      Route("auth", "POST", "/profile", "requireAuth", "users"),
      Route("auth", "POST", "/change-password", "requireAuth", "users") }
Routes ==
    PropertyRoutes \cup ResidentRoutes \cup SupportWorkerRoutes \cup SessionRoutes
    \cup AuthRoutes

GateCalls == [route : Routes, sessionUser : SessionUsers, client : Clients]

InitAccess ==
    /\ sessions = <<>>
    /\ nextId = 1
    /\ pc = [p \in Procs |-> "idle"]
    /\ req = [p \in Procs |-> NoBody]
    /\ response = NoResponse
    /\ calendar = NoCalendar
    /\ report = NoReport
    /\ handler = NoHandler
    /\ gate \in [call : GateCalls, done : {FALSE}]
    /\ user = NoUser
    /\ clock = 0
    /\ login = NoLogin
    /\ properties = <<>>
    /\ residents = <<>>

\* the middleware has answered; the handler runs, and writes its table, only
\* after the middleware called next()
Pass(answer) ==
    /\ gate' = [call |-> gate.call, done |-> TRUE, answer |-> answer,
                wrote |-> IF answer = "next" THEN {gate.call.route.writes} \ {"none"}
                          ELSE {}]
    /\ UNCHANGED <<sessions, nextId, pc, req, response, calendar, report,
                   handler, user, clock, login, properties, residents>>

AdminRoute ==
    /\ ~gate.done /\ gate.call.route.guard = "requireAdmin"
    /\ Pass(requireAdmin(gate.call.sessionUser, gate.call.client))
AuthenticatedRoute ==
    /\ ~gate.done /\ gate.call.route.guard = "requireAuth"
    /\ Pass(requireAuth(gate.call.sessionUser, gate.call.client))
OpenRoute ==
    /\ ~gate.done /\ gate.call.route.guard = "none"
    /\ Pass("next")

NextAccess ==
    \/ AdminRoute
    \/ AuthenticatedRoute
    \/ OpenRoute

SpecAccess == InitAccess /\ [][NextAccess]_vars

\* ------------------------------------------------------------- login
\* wrong-password attempts the clients make at most between two successful logins
MaxAttempts == 7
\* the last minute of the clock
MaxClock == 40
\* the clock moves in steps of 5 minutes
TickMinutes == 5
\* 15 * 60 * 1000 milliseconds
LockMinutes == 15
\* user.failed_login_attempts >= 4
LockThreshold == 4

\* UPDATE users SET failed_login_attempts = failed_login_attempts + 1
incrementFailedLoginAttempts(row) ==
    [row EXCEPT !.failed_login_attempts = @ + 1]
\* UPDATE users SET failed_login_attempts = 0, locked_until = NULL
resetFailedLoginAttempts(row) ==
    [row EXCEPT !.failed_login_attempts = 0, !.locked_until = NullTime]
\* an update that leaves the row as it is
lockUserNever(row, lockUntil) == row
\* UPDATE users SET locked_until = $1
lockUser(row, lockUntil) == [row EXCEPT !.locked_until = lockUntil]
\* user.locked_until && new Date() < new Date(user.locked_until)
isLocked(row, time) == row.locked_until # NullTime /\ time < row.locked_until

\* the login state with the request of client p replaced
idleRequest == [at |-> "idle", correct |-> FALSE, seen |-> NoUser]
loginFrame == <<sessions, nextId, pc, req, calendar, report, handler, gate,
                properties, residents>>

\* one active user with no failed attempts, at minute 0
InitLogin ==
    /\ sessions = <<>>
    /\ nextId = 1
    /\ pc = [p \in Procs |-> "idle"]
    /\ req = [p \in Procs |-> NoBody]
    /\ response = NoResponse
    /\ calendar = NoCalendar
    /\ report = NoReport
    /\ handler = NoHandler
    /\ gate = NoGate
    /\ user = [id |-> "u1", failed_login_attempts |-> 0, locked_until |-> NullTime]
    /\ clock = 0
    /\ login = NoLogin
    /\ properties = <<>>
    /\ residents = <<>>

Tick ==
    /\ clock + TickMinutes <= MaxClock
    /\ clock' = clock + TickMinutes
    /\ UNCHANGED <<user, login, response, loginFrame>>

\* POST /login up to bcrypt.compare: getUserByEmail and the lock check; the
\* password is compared only where the row read is not locked
LoginRead(p, correct) ==
    /\ login.request[p].at = "idle"
    /\ login.streak < MaxAttempts
    /\ IF isLocked(user, clock)
       THEN /\ Respond("login", "locked", NoId)
            /\ UNCHANGED login
       ELSE /\ login' = [login EXCEPT
                           !.request[p] = [at |-> "compared", correct |-> correct,
                                           seen |-> user],
                           !.streak = IF correct THEN @ ELSE @ + 1,
                           !.sinceLock = IF correct THEN @ ELSE @ + 1]
            /\ UNCHANGED response
    /\ UNCHANGED <<user, clock, loginFrame>>

\* the wrong password: await dbOps.incrementFailedLoginAttempts(user.id)
LoginIncrement(p) ==
    /\ login.request[p].at = "compared" /\ ~login.request[p].correct
    /\ user' = incrementFailedLoginAttempts(user)
    /\ login' = [login EXCEPT !.request[p].at = "incremented"]
    /\ UNCHANGED <<clock, response, loginFrame>>

\* the wrong password: the lock decision on the row read at the start
LoginDecide(p) ==
    /\ login.request[p].at = "incremented"
    /\ IF login.request[p].seen.failed_login_attempts >= LockThreshold
       THEN /\ user' = lockUser(user, clock + LockMinutes)
            /\ login' = [login EXCEPT !.request[p] = idleRequest,
                                      !.lastLock = login.sinceLock, !.sinceLock = 0]
            /\ Respond("login", "locked_now", NoId)
       ELSE /\ login' = [login EXCEPT !.request[p] = idleRequest]
            /\ Respond("login", "invalid", NoId)
            /\ UNCHANGED user
    /\ UNCHANGED <<clock, loginFrame>>

\* the right password: resetFailedLoginAttempts, updateUserLastLogin, the
\* session user, the redirect to the dashboard
LoginSucceed(p) ==
    /\ login.request[p].at = "compared" /\ login.request[p].correct
    /\ user' = resetFailedLoginAttempts(user)
    /\ login' = [login EXCEPT !.request[p] = idleRequest, !.streak = 0,
                              !.sinceLock = 0, !.lastLock = 0]
    /\ Respond("login", "dashboard", NoId)
    /\ UNCHANGED <<clock, loginFrame>>

\* one client: each login request is answered before the next is sent
NextLogin ==
    \/ Tick
    \/ \E correct \in BOOLEAN : LoginRead("p1", correct)
    \/ LoginIncrement("p1")
    \/ LoginDecide("p1")
    \/ LoginSucceed("p1")

SpecLogin == InitLogin /\ [][NextLogin]_vars

\* login requests of several clients, interleaved at the handler's awaits
NextLoginRace ==
    \/ Tick
    \/ \E p \in Procs, correct \in BOOLEAN : LoginRead(p, correct)
    \/ \E p \in Procs : LoginIncrement(p)
    \/ \E p \in Procs : LoginDecide(p)
    \/ \E p \in Procs : LoginSucceed(p)

SpecLoginRace == InitLogin /\ [][NextLoginRace]_vars

\* ---------------------------------------------- properties and residents
\* rows of the residents table at most
MaxResidents == 3
PropertyIds == {"pA", "pB"}
\* a well-formed id that no property row has
UnknownProperty == "pX"
ResidentIds == 1..MaxResidents

\* SELECT * FROM properties WHERE id = $1: the row, active or not
getPropertyById(id) == IF id \in DOMAIN properties THEN {properties[id]} ELSE {}
\* SELECT * FROM residents WHERE property_id = $1 AND is_active = true
getResidentsByProperty(propertyId) ==
    { i \in DOMAIN residents :
        residents[i].property_id = propertyId /\ residents[i].is_active }
\* UPDATE properties SET is_active = false WHERE id = $1
deleteProperty(id) == [properties EXCEPT ![id].is_active = FALSE]
\* INSERT INTO residents (..., property_id, ...): is_active is left to the
\* column's default
insertResident(property_id, columnDefault) ==
    Append(residents, [property_id |-> property_id, is_active |-> columnDefault])
\* UPDATE residents SET ..., property_id = $3, ... WHERE id = $13
updateResident(id, property_id) ==
    IF id \in DOMAIN residents
    THEN [residents EXCEPT ![id].property_id = property_id]
    ELSE residents

homesFrame == <<sessions, nextId, pc, req, calendar, report, handler, gate,
                user, clock, login>>

\* the properties active, no resident yet
InitHomes ==
    /\ sessions = <<>>
    /\ nextId = 1
    /\ pc = [p \in Procs |-> "idle"]
    /\ req = [p \in Procs |-> NoBody]
    /\ response = NoResponse
    /\ calendar = NoCalendar
    /\ report = NoReport
    /\ handler = NoHandler
    /\ gate = NoGate
    /\ user = NoUser
    /\ clock = 0
    /\ login = NoLogin
    /\ properties = [id \in PropertyIds |-> [is_active |-> TRUE]]
    /\ residents = <<>>

\* POST /properties/:id/delete; a request with no Accept header that is not an
\* XMLHttpRequest throws after the update, and again in the catch block
PropertyDelete(id, client) ==
    /\ IF getPropertyById(id) = {}
       THEN /\ Respond("property_delete", "not_found", NoId)
            /\ UNCHANGED properties
       ELSE IF getResidentsByProperty(id) # {}
       THEN /\ Respond("property_delete", "has_residents", NoId)
            /\ UNCHANGED properties
       ELSE /\ properties' = deleteProperty(id)
            /\ Respond("property_delete",
                       IF client = "json" THEN "json_success"
                       ELSE IF client = "browser" THEN "redirect_list"
                       ELSE "rejected", NoId)
    /\ UNCHANGED <<residents, homesFrame>>

\* POST /residents/create: the validators, then the INSERT with the body's
\* property_id; the new row's is_active is the default of a schema file that
\* is not among the sources, so either value
ResidentCreate(property_id, valid, columnDefault) ==
    /\ Len(residents) < MaxResidents
    /\ IF ~valid
       THEN /\ Respond("resident_create", "form_invalid", NoId)
            /\ UNCHANGED residents
       ELSE /\ residents' = insertResident(property_id, columnDefault)
            /\ Respond("resident_create", "redirect_show", Len(residents) + 1)
    /\ UNCHANGED <<properties, homesFrame>>

\* POST /residents/:id/edit: the validators, then the UPDATE with the body's
\* property_id
ResidentEdit(id, property_id, valid) ==
    /\ IF ~valid
       THEN /\ Respond("resident_edit", "form_invalid", id)
            /\ UNCHANGED residents
       ELSE /\ residents' = updateResident(id, property_id)
            /\ Respond("resident_edit", "redirect_show", id)
    /\ UNCHANGED <<properties, homesFrame>>

NextHomes ==
    \/ \E id \in PropertyIds \cup {UnknownProperty}, client \in Clients :
           PropertyDelete(id, client)
    \/ \E property_id \in PropertyIds, valid \in BOOLEAN, columnDefault \in BOOLEAN :
           ResidentCreate(property_id, valid, columnDefault)
    \/ \E id \in ResidentIds, property_id \in PropertyIds, valid \in BOOLEAN :
           ResidentEdit(id, property_id, valid)

SpecHomes == InitHomes /\ [][NextHomes]_vars

\* ------------------------------------------------------------- properties
\* [s1,e1) and [s2,e2) overlap iff s1 < e2 and s2 < e1
Overlap(r1, r2) == r1.start_time < r2.end_time /\ r2.start_time < r1.end_time
SameWorkerAndDate(r1, r2) ==
    r1.support_worker_id = r2.support_worker_id /\ r1.session_date = r2.session_date
WellFormed(r) == r.start_time < r.end_time
\* the session a body asks for
Candidate(b) == Row(b, IF b.status = NoStatus THEN "planned" ELSE b.status)
\* the stored active sessions of the candidate's worker and date that overlap it
Overlapping(b) ==
    { id \in Stored :
        /\ SameWorkerAndDate(sessions[id], Candidate(b))
        /\ Active(sessions[id])
        /\ Overlap(sessions[id], Candidate(b)) }
\* what a step of the create handler did with the request of p
RejectedAs(p, kind) ==
    /\ CreateCheck(p)
    /\ pc'[p] = "idle"
    /\ response' = [op |-> "create", kind |-> kind, id |-> NoId]
PassedChecks(p) == CreateCheck(p) /\ pc'[p] = "insert"

\* C1: no two distinct stored sessions of the same worker and date, both
\* active, have overlapping [start_time, end_time) intervals, after any
\* sequence of validated create, update and delete requests.
C1_NoActiveOverlap ==
    \A i \in Stored, j \in Stored :
        (i # j /\ SameWorkerAndDate(sessions[i], sessions[j])
               /\ Active(sessions[i]) /\ Active(sessions[j]))
            => ~Overlap(sessions[i], sessions[j])

\* C2: with create requests running concurrently, each doing its conflict
\* read and then its insert, the store never holds two active sessions of
\* one worker and date whose intervals overlap.
C2_NoOverlapUnderConcurrentCreates ==
    ~ \E i \in Stored, j \in Stored :
        /\ i < j
        /\ SameWorkerAndDate(sessions[i], sessions[j])
        /\ Active(sessions[i]) /\ Active(sessions[j])
        /\ Overlap(sessions[i], sessions[j])

\* C3: an update that would make the session overlap another active session
\* of the same worker and date is rejected and leaves the stored session
\* unchanged (the session itself is not counted).
C3_ConflictingUpdateRejected ==
    [][\A id \in Ids, b \in Bodies :
          ( /\ EditSession("p1", id, b)
            /\ id \in Stored /\ ValidEdit(b) /\ Active(Row(b, b.status))
            /\ \E j \in Stored \ {id} :
                  /\ SameWorkerAndDate(sessions[j], Row(b, b.status))
                  /\ Active(sessions[j])
                  /\ Overlap(sessions[j], Row(b, b.status)) )
          => (sessions' = sessions /\ response'.kind = "conflict")]_vars

\* C4: for a candidate and a stored active session of its worker and date,
\* both with start < end, the three-clause condition is true exactly when
\* the two intervals overlap, and a create is rejected as 'already
\* scheduled' exactly when at least one such stored session overlaps the
\* candidate.
C4_ConflictIffOverlap ==
    [][(CreateCheck("p1") /\ ValidCreate(req["p1"]) /\ WellFormed(Candidate(req["p1"])))
          => /\ \A id \in Stored :
                  ( /\ SameWorkerAndDate(sessions[id], Candidate(req["p1"]))
                    /\ Active(sessions[id]) /\ WellFormed(sessions[id]) )
                  => (TimeClause(sessions[id], Candidate(req["p1"]).start_time,
                                 Candidate(req["p1"]).end_time)
                        <=> Overlap(sessions[id], Candidate(req["p1"])))
             /\ RejectedAs("p1", "conflict")
                  <=> \E id \in Overlapping(req["p1"]) : WellFormed(sessions[id])]_vars

\* C5: a create whose start_time is the end_time of a stored active session
\* of its worker and date, or whose end_time is that session's start_time,
\* and that overlaps no other session, is accepted; touching intervals are
\* never reported as a conflict.
C5_TouchingAccepted ==
    [][( /\ CreateCheck("p1")
         /\ ValidCreate(req["p1"]) /\ WellFormed(Candidate(req["p1"]))
         /\ \E id \in Stored :
               /\ SameWorkerAndDate(sessions[id], Candidate(req["p1"]))
               /\ Active(sessions[id]) /\ WellFormed(sessions[id])
               /\ \/ Candidate(req["p1"]).start_time = sessions[id].end_time
                  \/ Candidate(req["p1"]).end_time = sessions[id].start_time
         /\ Overlapping(req["p1"]) = {} )
          => PassedChecks("p1")]_vars

\* C6: the create conflict check compares the candidate only with stored
\* sessions of the same worker, the same date and status planned or
\* completed: a create is rejected as a conflict only when such a session
\* overlaps the candidate, so a cancelled or no_show session, one of another
\* worker or one on another date never causes the rejection.
C6_OnlySameWorkerDateActiveCompared ==
    [][RejectedAs("p1", "conflict")
          => \E id \in Stored :
                /\ sessions[id].support_worker_id = req["p1"].support_worker_id
                /\ sessions[id].session_date = req["p1"].session_date
                /\ sessions[id].status \in {"planned", "completed"}
                /\ Overlap(sessions[id], Candidate(req["p1"]))]_vars

\* a create was just accepted although a stored no_show session of its
\* worker and date overlaps it
C6_Witness ==
    /\ response = [op |-> "create", kind |-> "redirect", id |-> nextId - 1]
    /\ response.id \in Stored
    /\ Active(sessions[response.id])
    /\ \E j \in Stored :
          /\ j < response.id
          /\ SameWorkerAndDate(sessions[j], sessions[response.id])
          /\ sessions[j].status = "no_show"
          /\ Overlap(sessions[j], sessions[response.id])

\* C7: a create rejected because of a conflict answers with the id of a
\* stored session that overlaps the candidate, the one with the earliest
\* start_time when several overlap.
C7_ConflictCarriesEarliestId ==
    [][(CreateCheck("p1") /\ pc'["p1"] = "idle" /\ response'.kind = "conflict")
          => /\ response'.id \in Overlapping(req["p1"])
             /\ \A j \in Overlapping(req["p1"]) :
                   sessions[response'.id].start_time <= sessions[j].start_time]_vars

\* C8: every stored session has start_time strictly earlier than end_time.
C8_StartBeforeEnd == \A id \in Stored : sessions[id].start_time < sessions[id].end_time

\* C9: for every pair of time strings the validator accepts, the create
\* handler rejects the request at the ordering check exactly when end_time
\* is not later than start_time as a time of day.
C9_OrderingCheckByTimeOfDay ==
    [][(CreateCheck("p1") /\ ValidCreate(req["p1"]))
          => (RejectedAs("p1", "order")
                <=> ToMinutes(req["p1"].end_time) <= ToMinutes(req["p1"].start_time))]_vars

\* C10: every stored session's duration_minutes is the number of minutes
\* from its start_time to its end_time.
C10_DurationMatchesTimes ==
    \A id \in Stored :
        sessions[id].duration_minutes = sessions[id].end_time - sessions[id].start_time

\* ------------------------------------------------------------- Date
\* A JavaScript Date is an instant, here a whole number of hours after
\* 2023-01-01T00:00Z; a calendar date is a day number, 2023-01-01 (a Sunday)
\* being day 0; a date-only string "YYYY-MM-DD" is the tuple <<YYYY, MM, DD>>.
Years == 2022..2026

IsLeap(y) == (y % 4 = 0 /\ y % 100 # 0) \/ y % 400 = 0
DaysInMonth(y, m) ==
    IF m = 2 THEN (IF IsLeap(y) THEN 29 ELSE 28)
    ELSE IF m \in {4, 6, 9, 11} THEN 30 ELSE 31
DaysInYear(y) == IF IsLeap(y) THEN 366 ELSE 365

\* the day number of 1 January of year y
RECURSIVE YearStart(_)
YearStart(y) ==
    IF y = 2023 THEN 0
    ELSE IF y > 2023 THEN YearStart(y - 1) + DaysInYear(y - 1)
    ELSE YearStart(y + 1) - DaysInYear(y)

\* the day number of the 1st of month m of year y; m = 13 is January of y + 1
RECURSIVE MonthStartOf(_, _)
MonthStartOf(y, m) ==
    IF m = 1 THEN YearStart(y) ELSE MonthStartOf(y, m - 1) + DaysInMonth(y, m - 1)
MonthStarts == [y \in Years |-> [m \in 1..13 |-> MonthStartOf(y, m)]]
MonthStart(y, m) == MonthStarts[y][m]

\* day d of month m of year y; d = 0 is the last day of the month before
DayNumber(y, m, d) == MonthStart(y, m) + d - 1

\* the year, month and day of month of every day of Years
Civil ==
    [n \in MonthStart(2022, 1)..(MonthStart(2026, 13) - 1) |->
        LET y == CHOOSE y \in Years : MonthStart(y, 1) <= n /\ n < MonthStart(y, 13)
            m == CHOOSE m \in 1..12 : MonthStart(y, m) <= n /\ n < MonthStart(y, m + 1)
        IN  <<y, m, n - MonthStart(y, m) + 1>>]
YearOf(n) == Civil[n][1]
MonthOf(n) == Civil[n][2]
DayOf(n) == Civil[n][3]
\* 0 is Sunday
Weekday(n) == n % 7
\* the date-only string naming day n, and the day a date-only string names
DateString(n) == Civil[n]
DayNamed(str) == DayNumber(str[1], str[2], str[3])

\* the server's local time zone: UTC, a zone 5 hours behind UTC all year, and
\* a zone on UTC in winter and an hour ahead in summer
TimeZones == {"UTC", "America/Bogota", "Europe/London"}
LastSunday(y, m) ==
    CHOOSE n \in MonthStart(y, m)..(MonthStart(y, m + 1) - 1) :
        Weekday(n) = 0 /\ n + 7 >= MonthStart(y, m + 1)
\* summer time runs from 01:00Z on the last Sunday of March to 01:00Z on the
\* last Sunday of October
SummerHours == [y \in Years |-> <<LastSunday(y, 3) * 24 + 1, LastSunday(y, 10) * 24 + 1>>]
SummerTime(t) ==
    LET y == YearOf(t \div 24)
    IN  t >= SummerHours[y][1] /\ t < SummerHours[y][2]
ZoneOffsets(tz) ==
    CASE tz = "UTC" -> {0}
      [] tz = "America/Bogota" -> {0 - 5}
      [] tz = "Europe/London" -> {0, 1}
OffsetAt(tz, t) ==
    CASE tz = "UTC" -> 0
      [] tz = "America/Bogota" -> 0 - 5
      [] tz = "Europe/London" -> IF SummerTime(t) THEN 1 ELSE 0

\* the local wall clock of an instant, in hours, and the instant of a wall
\* clock: the earlier one where the wall clock repeats, and the wall clock
\* moved forward where it is skipped
Hours == ((MonthStart(2022, 1) + 1) * 24)..((MonthStart(2026, 13) - 1) * 24 - 1)
WallClocks == [tz \in TimeZones |-> [t \in Hours |-> t + OffsetAt(tz, t)]]
InstantsOf ==
    [tz \in TimeZones |-> [w \in Hours |->
        LET all == {w - o : o \in ZoneOffsets(tz)}
            fit == {t \in all : t + OffsetAt(tz, t) = w}
        IN  IF fit # {} THEN CHOOSE t \in fit : \A u \in fit : t <= u
            ELSE CHOOSE t \in all : \A u \in all : t >= u]]
LocalTime(tz, t) == WallClocks[tz][t]
FromLocal(tz, w) == InstantsOf[tz][w]
LocalDay(tz, t) == LocalTime(tz, t) \div 24

\* new Date(year, monthIndex, day)
NewDate(tz, year, monthIndex, day) ==
    FromLocal(tz, DayNumber(year, monthIndex + 1, day) * 24)
\* new Date("YYYY-MM-DD"): midnight UTC of that day
ParseDate(str) == DayNamed(str) * 24
getFullYear(tz, t) == YearOf(LocalDay(tz, t))
getMonth(tz, t) == MonthOf(LocalDay(tz, t)) - 1
getDate(tz, t) == DayOf(LocalDay(tz, t))
getDay(tz, t) == Weekday(LocalDay(tz, t))
\* t.setDate(d): day d of the local month of t, at the local time of day of t
setDate(tz, t, d) ==
    LET n == LocalDay(tz, t)
    IN  FromLocal(tz, (MonthStart(YearOf(n), MonthOf(n)) + d - 1) * 24
                      + (LocalTime(tz, t) % 24))
\* t.toISOString().split('T')[0]: the date of t in UTC
toISODate(t) == DateString(t \div 24)
\* the Date the database driver builds for a DATE column holding day n:
\* local midnight of that day
ColumnDate(tz, n) == FromLocal(tz, n * 24)

\* ------------------------------------------------------------- calendar
\* A row of the calendar's session query: id, session_date (the day number the
\* DATE column holds) and start_time (the TIME column, minutes after midnight).
\* In the handler row.session_date is the driver's Date and row.start_time the
\* string "HH:MM:SS".
NoDate == <<>>
TimeString(min) ==
    <<(min \div 60) \div 10, (min \div 60) % 10, Colon,
      (min % 60) \div 10, (min % 60) % 10, Colon, 0, 0>>
\* session.session_date.toISOString().split('T')[0]
sessionKey(tz, s) == toISODate(ColumnDate(tz, s.session_date))
\* date.toDateString() === new Date().toDateString()
sameLocalDay(tz, t, now) == LocalDay(tz, t) = LocalDay(tz, now)

\* hour.toString().padStart(2, '0') : minute.toString().padStart(2, '0')
SlotLabel(hour, minute) ==
    <<hour \div 10, hour % 10, Colon, minute \div 10, minute % 10>>

\* a grid starting on the 1st of the month itself
monthStartsOnFirst(tz, firstDay) == firstDay
\* generateMonthlyCalendar: startDate, the Sunday the grid starts on
monthStartDate(tz, firstDay) ==
    setDate(tz, firstDay, getDate(tz, firstDay) - getDay(tz, firstDay))
\* currentDate.setDate(startDate.getDate() + n) on a copy of startDate
plusDays(tz, startDate, n) == setDate(tz, startDate, getDate(tz, startDate) + n)
\* the cell pushed for currentDate
monthCell(tz, now, month, rows, currentDate, dateKey) ==
    [date |-> getDate(tz, currentDate),
     fullDate |-> dateKey,
     isCurrentMonth |-> getMonth(tz, currentDate) = month - 1,
     isToday |-> sameLocalDay(tz, currentDate, now),
     sessions |-> SelectSeq(rows, LAMBDA s : sessionKey(tz, s) = dateKey)]
monthCellOf(tz, now, month, rows, currentDate) ==
    monthCell(tz, now, month, rows, currentDate, toISODate(currentDate))
\* generateMonthlyCalendar: calendar.weeks, 6 rows of 7 cells
generateMonthlyCalendar(tz, now, year, month, rows) ==
    [weeks |-> [week \in 1..6 |-> [day \in 1..7 |->
        monthCellOf(tz, now, month, rows,
            plusDays(tz, monthStartDate(tz, NewDate(tz, year, month - 1, 1)),
                     (week - 1) * 7 + (day - 1)))]]]

\* the time slots of the weekly calendar from an hour on: both half hours of
\* each hour up to 18, the inner loop leaving at 18:30
RECURSIVE weeklySlotsFrom(_)
weeklySlotsFrom(hour) ==
    IF hour > 18 THEN <<>>
    ELSE (IF hour = 18 THEN <<SlotLabel(hour, 0)>>
          ELSE <<SlotLabel(hour, 0), SlotLabel(hour, 30)>>)
         \o weeklySlotsFrom(hour + 1)

\* the day pushed for date
weekDay(tz, now, rows, date, dateKey) ==
    [date |-> getDate(tz, date),
     fullDate |-> dateKey,
     dayName |-> getDay(tz, date),
     isToday |-> sameLocalDay(tz, date, now),
     sessions |-> SelectSeq(rows, LAMBDA s : sessionKey(tz, s) = dateKey)]
weekDayOf(tz, now, rows, date) == weekDay(tz, now, rows, date, toISODate(date))
\* generateWeeklyCalendar
generateWeeklyCalendar(tz, now, startDate, rows) ==
    [days |-> [i \in 1..7 |-> weekDayOf(tz, now, rows, plusDays(tz, startDate, i - 1))],
     timeSlots |-> weeklySlotsFrom(9)]

\* a.start_time.localeCompare(b.start_time) > 0, on "HH:MM:SS" strings
startsAfter(a, b) == StrLess(TimeString(b.start_time), TimeString(a.start_time))
\* Array.prototype.sort with that comparator: stable
RECURSIVE sortByStart(_)
sortByStart(rows) ==
    IF rows = <<>> THEN <<>>
    ELSE LET rest == sortByStart(Tail(rows))
             x == Head(rows)
             \* x goes before the first row of rest that does not start before it
             n == Cardinality({i \in 1..Len(rest) : startsAfter(x, rest[i])
                                  /\ \A j \in 1..i : startsAfter(x, rest[j])})
         IN  SubSeq(rest, 1, n) \o <<x>> \o SubSeq(rest, n + 1, Len(rest))

RECURSIVE dailySlotsFrom(_)
dailySlotsFrom(hour) ==
    IF hour > 19 THEN <<>> ELSE <<SlotLabel(hour, 0)>> \o dailySlotsFrom(hour + 1)

\* generateDailyCalendar
generateDailyCalendar(tz, date, rows) ==
    [date |-> date,
     sessions |-> sortByStart(SelectSeq(rows,
                      LAMBDA s : sessionKey(tz, s) = toISODate(date))),
     timeSlots |-> dailySlotsFrom(8)]

\* generateNavigation
generateNavigation(tz, view, year, month, week, date) ==
    IF view = "monthly"
    THEN [view |-> view,
          prev |-> [year |-> IF month = 1 THEN year - 1 ELSE year,
                    month |-> IF month = 1 THEN 12 ELSE month - 1],
          next |-> [year |-> IF month = 12 THEN year + 1 ELSE year,
                    month |-> IF month = 12 THEN 1 ELSE month + 1],
          current |-> [year |-> year, month |-> month]]
    ELSE IF view = "weekly" /\ week # NoDate
    THEN [view |-> view,
          prev |-> [week |-> toISODate(plusDays(tz, ParseDate(week), 0 - 7))],
          next |-> [week |-> toISODate(plusDays(tz, ParseDate(week), 7))],
          current |-> [week |-> week]]
    ELSE IF view = "daily" /\ date # NoDate
    THEN [view |-> view,
          prev |-> [date |-> toISODate(plusDays(tz, ParseDate(date), 0 - 1))],
          next |-> [date |-> toISODate(plusDays(tz, ParseDate(date), 1))],
          current |-> [date |-> date]]
    ELSE [view |-> view]

\* the value of a query parameter, or its default
Param(q, name, default) == IF name \in DOMAIN q THEN q[name] ELSE default

\* s.session_date BETWEEN $1 AND $2 ... ORDER BY s.session_date, s.start_time
\* over the rows of a table (a set of rows)
RECURSIVE orderRows(_)
orderRows(set) ==
    IF set = {} THEN <<>>
    ELSE LET first == CHOOSE r \in set : \A o \in set :
                          \/ r.session_date < o.session_date
                          \/ /\ r.session_date = o.session_date
                             /\ r.start_time < o.start_time
                          \/ /\ r.session_date = o.session_date
                             /\ r.start_time = o.start_time
                             /\ r.id <= o.id
         IN  <<first>> \o orderRows(set \ {first})
sessionsQuery(table, from, to) ==
    orderRows({r \in table :
                 DayNamed(from) <= r.session_date /\ r.session_date <= DayNamed(to)})

\* GET /calendar: the query parameters with their defaults
viewOf(q) == Param(q, "view", "monthly")
viewYear(tz, now, q) == Param(q, "year", getFullYear(tz, now))
viewMonth(tz, now, q) == Param(q, "month", getMonth(tz, now) + 1)
weekOf(q) == Param(q, "week", NoDate)
dateOf(q) == Param(q, "date", NoDate)
\* the week parameter, or the Sunday of the current week at the current time
weekStart(tz, now, q) ==
    IF weekOf(q) # NoDate THEN ParseDate(weekOf(q))
    ELSE setDate(tz, now, getDate(tz, now) - getDay(tz, now))
\* the date range of the view
startDate(tz, now, q) ==
    IF viewOf(q) = "weekly" THEN weekStart(tz, now, q)
    ELSE IF viewOf(q) = "daily" /\ dateOf(q) # NoDate THEN ParseDate(dateOf(q))
    ELSE NewDate(tz, viewYear(tz, now, q), viewMonth(tz, now, q) - 1, 1)
endDate(tz, now, q) ==
    IF viewOf(q) = "weekly" THEN plusDays(tz, weekStart(tz, now, q), 6)
    ELSE IF viewOf(q) = "daily" /\ dateOf(q) # NoDate THEN ParseDate(dateOf(q))
    ELSE NewDate(tz, viewYear(tz, now, q), viewMonth(tz, now, q), 0)
queryParams(tz, now, q) ==
    <<toISODate(startDate(tz, now, q)), toISODate(endDate(tz, now, q))>>
currentWeek(tz, now, q) ==
    IF viewOf(q) = "weekly" /\ weekOf(q) = NoDate
    THEN toISODate(startDate(tz, now, q))
    ELSE weekOf(q)
\* let calendarData; left without a value
Undefined == [undefined |-> TRUE]
\* the grid of the view over the rows of the session query
calendarData(tz, now, q, rows) ==
    IF viewOf(q) = "monthly"
    THEN generateMonthlyCalendar(tz, now, viewYear(tz, now, q), viewMonth(tz, now, q), rows)
    ELSE IF viewOf(q) = "weekly"
    THEN generateWeeklyCalendar(tz, now, startDate(tz, now, q), rows)
    ELSE IF viewOf(q) = "daily"
    THEN generateDailyCalendar(tz, startDate(tz, now, q), rows)
    ELSE Undefined
\* what the handler renders calendar/index with
calendarPage(tz, now, q, rows) ==
    [view |-> viewOf(q),
     queryParams |-> queryParams(tz, now, q),
     sessions |-> rows,
     calendarData |-> calendarData(tz, now, q, rows),
     currentDate |-> [year |-> viewYear(tz, now, q), month |-> viewMonth(tz, now, q),
                      week |-> currentWeek(tz, now, q), date |-> dateOf(q)],
     navigation |-> generateNavigation(tz, viewOf(q), viewYear(tz, now, q),
                        viewMonth(tz, now, q), currentWeek(tz, now, q), dateOf(q))]

\* ------------------------------------------------------------- calendar calls
\* rows per call
MaxRows == 2

CalendarYears == 2023..2025
\* Wednesday 14 February 2024 12:00Z; Saturday 6 July 2024 23:00Z, which is
\* already Sunday in a zone ahead of UTC
Nows == {DayNumber(2024, 2, 14) * 24 + 12, DayNumber(2024, 7, 6) * 24 + 23}
\* week and date parameters: Sundays and weekdays, in winter and in summer,
\* next to the ends of months and years and to the changes of the clocks
AnchorDates ==
    { <<2024, 2, 11>>, <<2024, 2, 14>>, <<2024, 3, 1>>, <<2024, 3, 27>>,
      <<2024, 7, 7>>, <<2024, 10, 30>>, <<2024, 12, 29>>, <<2025, 1, 1>> }
StartTimes == {540, 600}

\* the sequences of at most MaxRows rows on the given days at the given times
RowsOf(days, times, n) ==
    { [i \in 1..n |-> [id |-> i, session_date |-> f[i][1], start_time |-> f[i][2]]] :
        f \in [1..n -> days \X times] }
RowSeqs(days, times) == UNION { RowsOf(days, times, n) : n \in 0..MaxRows }
\* the tables of at most MaxRows rows, one row at most on each given day
TablesOf(days) ==
    { { [id |-> d, session_date |-> d, start_time |-> 540] : d \in ds } :
        ds \in { x \in SUBSET days : Cardinality(x) <= MaxRows } }

\* the query strings of GET /calendar
CalendarQueries ==
    [view : {"monthly"}, year : {2024}, month : 1..12]
    \cup [year : {2023, 2025}, month : {1, 12}]
    \cup [view : {"monthly", "weekly", "daily", "agenda"}]
    \cup [view : {"weekly"}, week : AnchorDates]
    \cup [view : {"daily"}, date : AnchorDates]
\* the first and the last day the page of a query shows sessions of
PageDays(tz, now, q) ==
    IF Param(q, "view", "monthly") = "weekly"
    THEN IF "week" \in DOMAIN q THEN <<DayNamed(q.week), DayNamed(q.week) + 6>>
         ELSE <<LocalDay(tz, now) - Weekday(LocalDay(tz, now)),
                LocalDay(tz, now) - Weekday(LocalDay(tz, now)) + 6>>
    ELSE IF Param(q, "view", "monthly") = "daily" /\ "date" \in DOMAIN q
    THEN <<DayNamed(q.date), DayNamed(q.date)>>
    ELSE <<DayNumber(Param(q, "year", YearOf(LocalDay(tz, now))),
                     Param(q, "month", MonthOf(LocalDay(tz, now))), 1),
           DayNumber(Param(q, "year", YearOf(LocalDay(tz, now))),
                     Param(q, "month", MonthOf(LocalDay(tz, now))) + 1, 0)>>

RouteCalls ==
    UNION { [op : {"GET /calendar"}, tz : {tz}, now : {now}, query : {q},
             table : TablesOf({PageDays(tz, now, q)[1] - 1, PageDays(tz, now, q)[1],
                               PageDays(tz, now, q)[2], PageDays(tz, now, q)[2] + 1})] :
            tz \in TimeZones, now \in Nows, q \in CalendarQueries }
MonthlyCalls ==
    UNION { [op : {"generateMonthlyCalendar"}, tz : TimeZones,
             now : {DayNumber(2024, 2, 14) * 24 + 12}, year : {y}, month : {m},
             rows : RowSeqs({DayNumber(y, m, 0), DayNumber(y, m, 1),
                             DayNumber(y, m + 1, 0), DayNumber(y, m, 1) + 60}, {540})] :
            y \in CalendarYears, m \in 1..12 }
\* the weekly and daily builders are called with midnight UTC of a date
\* parameter or with a local time of the server
WeeklyCalls ==
    UNION { [op : {"generateWeeklyCalendar"}, tz : {tz}, now : Nows,
             startDate : {ParseDate(a), ColumnDate(tz, DayNamed(a))},
             rows : RowSeqs({DayNamed(a) - 1, DayNamed(a), DayNamed(a) + 6,
                             DayNamed(a) + 7}, {540})] :
            tz \in TimeZones, a \in AnchorDates }
DailyCalls ==
    UNION { [op : {"generateDailyCalendar"}, tz : {tz},
             date : {ParseDate(a), ColumnDate(tz, DayNamed(a))},
             rows : RowSeqs({DayNamed(a) - 1, DayNamed(a), DayNamed(a) + 1}, StartTimes)] :
            tz \in TimeZones, a \in AnchorDates }
NavigationCalls ==
    [op : {"generateNavigation"}, tz : TimeZones, view : {"monthly"},
     year : CalendarYears, month : 1..12, week : {NoDate}, date : {NoDate}]
    \cup [op : {"generateNavigation"}, tz : TimeZones, view : {"weekly"},
          year : {2024}, month : {2}, week : AnchorDates, date : {NoDate}]
    \cup [op : {"generateNavigation"}, tz : TimeZones, view : {"daily"},
          year : {2024}, month : {2}, week : {NoDate}, date : AnchorDates \cup {NoDate}]
CalendarCalls ==
    RouteCalls \cup MonthlyCalls \cup WeeklyCalls \cup DailyCalls \cup NavigationCalls

\* a call of the calendar module is pending, then answered
InitCalendar ==
    /\ sessions = <<>>
    /\ nextId = 1
    /\ pc = [p \in Procs |-> "idle"]
    /\ req = [p \in Procs |-> NoBody]
    /\ response = NoResponse
    /\ calendar \in [call : CalendarCalls, done : {FALSE}]
    /\ report = NoReport
    /\ AdminIdle

Answer(result) ==
    /\ calendar' = [call |-> calendar.call, done |-> TRUE, result |-> result]
    /\ UNCHANGED <<sessions, nextId, pc, req, response, report, adminVars>>

CalendarRoute ==
    /\ ~calendar.done /\ calendar.call.op = "GET /calendar"
    /\ Answer(calendarPage(calendar.call.tz, calendar.call.now, calendar.call.query,
                  sessionsQuery(calendar.call.table,
                      queryParams(calendar.call.tz, calendar.call.now, calendar.call.query)[1],
                      queryParams(calendar.call.tz, calendar.call.now, calendar.call.query)[2])))
MonthlyGrid ==
    /\ ~calendar.done /\ calendar.call.op = "generateMonthlyCalendar"
    /\ Answer(generateMonthlyCalendar(calendar.call.tz, calendar.call.now,
                  calendar.call.year, calendar.call.month, calendar.call.rows))
WeeklyGrid ==
    /\ ~calendar.done /\ calendar.call.op = "generateWeeklyCalendar"
    /\ Answer(generateWeeklyCalendar(calendar.call.tz, calendar.call.now,
                  calendar.call.startDate, calendar.call.rows))
DailyGrid ==
    /\ ~calendar.done /\ calendar.call.op = "generateDailyCalendar"
    /\ Answer(generateDailyCalendar(calendar.call.tz, calendar.call.date,
                                    calendar.call.rows))
Navigation ==
    /\ ~calendar.done /\ calendar.call.op = "generateNavigation"
    /\ Answer(generateNavigation(calendar.call.tz, calendar.call.view,
                  calendar.call.year, calendar.call.month,
                  calendar.call.week, calendar.call.date))

NextCalendar ==
    \/ CalendarRoute
    \/ MonthlyGrid
    \/ WeeklyGrid
    \/ DailyGrid
    \/ Navigation

SpecCalendar == InitCalendar /\ [][NextCalendar]_vars

\* ------------------------------------------------------------- reports
\* The report queries over a store [residents, properties, workers, sessions],
\* each a set of rows. A number of hours is kept as its count of minutes, the
\* value of SUM(duration_minutes) before the division by 60.0 and of
\* monthly_support_hours after a multiplication by 60.
\* A row of NULLs of residents or properties, and one of support_sessions.
Null == [id |-> "NULL", name |-> <<>>]
NullSession == [id |-> 0, status |-> "NULL", duration_minutes |-> 0,
                resident_id |-> "NULL", session_date |-> 0]
\* the right side of a LEFT JOIN: the matching rows, or one row of NULLs
orNull(matching, nulls) == IF matching = {} THEN {nulls} ELSE matching
\* EXTRACT(YEAR FROM s.session_date) = $1 AND EXTRACT(MONTH FROM s.session_date) = $2
inReportMonth(s, year, month) ==
    YearOf(s.session_date) = year /\ MonthOf(s.session_date) = month
\* SUM(CASE WHEN s.status = status THEN s.duration_minutes ELSE 0 END) over joined rows
RECURSIVE minutesWhere(_, _)
minutesWhere(joined, status) ==
    IF joined = {} THEN 0
    ELSE (IF (CHOOSE j \in joined : TRUE).s.status = status
          THEN (CHOOSE j \in joined : TRUE).s.duration_minutes ELSE 0)
         + minutesWhere(joined \ {CHOOSE j \in joined : TRUE}, status)
\* COUNT(CASE WHEN s.status = status THEN 1 END)
countWhere(joined, status) == Cardinality({j \in joined : j.s.status = status})
\* COUNT(s.id)
countSessions(joined) == Cardinality({j \in joined : j.s.id # NullSession.id})

\* x.toFixed(1) for x = num / den, as a count of tenths; x is not a finite
\* number when den is 0. Halves round up, which is what toFixed does for the
\* quotients of the calls below.
toFixed1(num, den) ==
    IF den = 0 THEN [finite |-> FALSE, tenths |-> 0]
    ELSE [finite |-> TRUE, tenths |-> (20 * num + den) \div (2 * den)]
\* the number 0
Zero == [finite |-> TRUE, tenths |-> 0]

\* the rate without its guard
rateUnguarded(part, whole) == toFixed1(part * 100, whole)
\* whole > 0 ? ((part / whole) * 100).toFixed(1) : 0
rate(part, whole) == IF whole > 0 THEN toFixed1(part * 100, whole) ELSE Zero

\* the sum over the sessions of any status
residentMinutesAnyStatus(joined) ==
    minutesWhere(joined, "completed") + minutesWhere(joined, "cancelled")
    + minutesWhere(joined, "planned") + minutesWhere(joined, "no_show")
\* hours_used of getMonthlyUtilization
residentMinutes(joined) == minutesWhere(joined, "completed")

\* getMonthlyUtilization: the joined rows of resident r
residentJoin(store, r, year, month) ==
    { [p |-> p, s |-> s] :
        p \in orNull({p \in store.properties : p.id = r.property_id}, Null),
        s \in orNull({s \in store.sessions :
                        s.resident_id = r.id /\ inReportMonth(s, year, month)}, NullSession) }
\* getMonthlyUtilization: the row of resident r
residentRow(r, joined) ==
    [id |-> r.id,
     monthly_support_hours |-> r.monthly_support_hours,
     property_name |-> (CHOOSE j \in joined : TRUE).p.name,
     hours_used |-> residentMinutes(joined),
     hours_planned |-> minutesWhere(joined, "planned"),
     hours_cancelled |-> minutesWhere(joined, "cancelled"),
     completed_sessions |-> countWhere(joined, "completed"),
     no_show_sessions |-> countWhere(joined, "no_show"),
     utilization_rate |-> rate(residentMinutes(joined), r.monthly_support_hours * 60),
     remaining_hours |-> r.monthly_support_hours * 60 - residentMinutes(joined)]
\* getMonthlyUtilization: a row for each active resident, by resident id
getMonthlyUtilization(store, year, month) ==
    [id \in {r.id : r \in {r \in store.residents : r.is_active}} |->
        residentRow(CHOOSE r \in store.residents : r.id = id,
                    residentJoin(store, CHOOSE r \in store.residents : r.id = id,
                                 year, month))]

\* getPropertyUtilization: the joined rows of property p
propertyJoin(store, p, year, month) ==
    { [r |-> r, s |-> s] :
        r \in orNull({r \in store.residents : r.property_id = p.id /\ r.is_active}, Null),
        s \in orNull({s \in store.sessions :
                        s.property_id = p.id /\ inReportMonth(s, year, month)}, NullSession) }
\* getPropertyUtilization: the row of property p
propertyRow(p, joined) ==
    [id |-> p.id,
     max_capacity |-> p.max_capacity,
     current_residents |-> Cardinality({j.r.id : j \in joined} \ {Null.id}),
     total_sessions |-> countSessions(joined),
     total_hours |-> minutesWhere(joined, "completed"),
     completed_sessions |-> countWhere(joined, "completed"),
     cancelled_sessions |-> countWhere(joined, "cancelled"),
     occupancy_rate |-> rate(Cardinality({j.r.id : j \in joined} \ {Null.id}),
                             p.max_capacity)]
\* getPropertyUtilization: a row for each active property, by property id
getPropertyUtilization(store, year, month) ==
    [id \in {p.id : p \in {p \in store.properties : p.is_active}} |->
        propertyRow(CHOOSE p \in store.properties : p.id = id,
                    propertyJoin(store, CHOOSE p \in store.properties : p.id = id,
                                 year, month))]

\* getWorkerPerformanceDetail: the joined rows of worker w
workerJoin(store, w, year, month) ==
    { [s |-> s] :
        s \in orNull({s \in store.sessions :
                        s.support_worker_id = w.id /\ inReportMonth(s, year, month)}, NullSession) }
\* getWorkerPerformanceDetail: the row of worker w
workerRow(w, joined) ==
    [id |-> w.id,
     max_hours_per_month |-> w.max_hours_per_month,
     total_sessions |-> countSessions(joined),
     hours_worked |-> minutesWhere(joined, "completed"),
     completed_sessions |-> countWhere(joined, "completed"),
     cancelled_sessions |-> countWhere(joined, "cancelled"),
     no_show_sessions |-> countWhere(joined, "no_show"),
     unique_residents |-> Cardinality({j.s.resident_id : j \in joined} \ {NullSession.resident_id}),
     working_days |->
        Cardinality({j.s.session_date : j \in {j \in joined : j.s.id # NullSession.id}}),
     utilization_rate |-> rate(minutesWhere(joined, "completed"),
                               w.max_hours_per_month * 60),
     completion_rate |-> rate(countWhere(joined, "completed"), countSessions(joined)),
     avg_hours_per_day |->
        IF Cardinality({j.s.session_date : j \in {j \in joined : j.s.id # NullSession.id}}) > 0
        THEN toFixed1(minutesWhere(joined, "completed"),
                 60 * Cardinality({j.s.session_date :
                                      j \in {j \in joined : j.s.id # NullSession.id}}))
        ELSE Zero]
\* getWorkerPerformanceDetail: a row for each active worker, by worker id
getWorkerPerformanceDetail(store, year, month) ==
    [id \in {w.id : w \in {w \in store.workers : w.is_active}} |->
        workerRow(CHOOSE w \in store.workers : w.id = id,
                  workerJoin(store, CHOOSE w \in store.workers : w.id = id,
                             year, month))]

\* ------------------------------------------------------------- CSV export
\* A text is a sequence of pieces: the characters Quote, Comma and Newline, and
\* runs of other characters.
Quote == "\""
Comma == ","
Newline == "\n"
\* n.toFixed(1) of a number given as its count of tenths
fixed1(tenths) ==
    IF tenths < 0
    THEN <<"-", ToString((-tenths) \div 10), ".", ToString((-tenths) % 10)>>
    ELSE <<ToString(tenths \div 10), ".", ToString(tenths % 10)>>
\* array.join(separator) of an array of texts
RECURSIVE join(_, _)
join(texts, separator) ==
    IF Len(texts) = 0 THEN <<>>
    ELSE IF Len(texts) = 1 THEN texts[1]
    ELSE texts[1] \o <<separator>> \o join(Tail(texts), separator)
\* the cell between double quotes, as it is
quoteCell(cell) == <<Quote>> \o cell \o <<Quote>>
csvHeaders ==
    << <<"Resident Name">>, <<"Property">>, <<"Allocated Hours">>, <<"Hours Used">>,
       <<"Utilization Rate">>, <<"Remaining Hours">> >>
\* the six cells of a resident
csvRow(resident) ==
    << resident.first_name \o <<" ">> \o resident.last_name,
       resident.property_name,
       <<ToString(resident.monthly_support_hours)>>,
       fixed1(resident.hours_used.tenths),
       resident.utilization_rate \o <<"%">>,
       fixed1(resident.remaining_hours) >>
csvLine(row) == join([k \in 1..Len(row) |-> quoteCell(row[k])], Comma)
\* generateCSV: hours_used.toFixed is not a function when hours_used is the
\* text in which the database driver hands over a NUMERIC column
generateCSV(data) ==
    IF \E i \in 1..Len(data.residents) : ~data.residents[i].hours_used.number
    THEN [thrown |-> "TypeError", text |-> <<>>]
    ELSE [thrown |-> "none",
          text |-> join([i \in 1..(1 + Len(data.residents)) |->
                            IF i = 1 THEN csvLine(csvHeaders)
                            ELSE csvLine(csvRow(data.residents[i - 1]))],
                        Newline)]

\* ------------------------------------------------------------- report calls
\* The report month of the calls below.
ReportYear == 2024
ReportMonth == 2
\* the session rows numbered 1..n, each drawn from the given rows
sessionRows(choices, n) ==
    { { [id |-> i,
         resident_id |-> f[i].resident_id,
         support_worker_id |-> f[i].support_worker_id,
         property_id |-> f[i].property_id,
         status |-> f[i].status,
         duration_minutes |-> f[i].duration_minutes,
         session_date |-> f[i].session_date] : i \in 1..n } :
        f \in [1..n -> choices] }
sessionTables(choices) == UNION { sessionRows(choices, n) : n \in 0..MaxRows }

\* one property, two residents of it, sessions on the edges of the month
UtilizationStores ==
    [residents : { { [id |-> "r1", property_id |-> "pA", is_active |-> a,
                      monthly_support_hours |-> h],
                     [id |-> "r2", property_id |-> "pA", is_active |-> TRUE,
                      monthly_support_hours |-> 2] } :
                   a \in BOOLEAN, h \in {0, 1} },
     properties : { { [id |-> "pA", name |-> <<"p">>, is_active |-> TRUE,
                       max_capacity |-> 3] } },
     workers : { {} },
     sessions : sessionTables(
        [resident_id : {"r1", "r2"}, support_worker_id : {"w1"}, property_id : {"pA"},
         status : {"completed", "cancelled"}, duration_minutes : {30, 90},
         session_date : {DayNumber(2024, 2, 1), DayNumber(2024, 2, 29),
                         DayNumber(2024, 3, 1), DayNumber(2023, 2, 10)}])]
\* one property with none, one or two active residents
PropertyStores ==
    [residents : { {r \in { [id |-> "r1", property_id |-> "pA", is_active |-> a1,
                             monthly_support_hours |-> 2],
                            [id |-> "r2", property_id |-> "pA", is_active |-> a2,
                             monthly_support_hours |-> 2] } : r.id \in ids} :
                   a1 \in BOOLEAN, a2 \in BOOLEAN, ids \in SUBSET {"r1", "r2"} },
     properties : { { [id |-> "pA", name |-> <<"p">>, is_active |-> a,
                       max_capacity |-> c] } : a \in BOOLEAN, c \in {0, 3} },
     workers : { {} },
     sessions : sessionTables(
        [resident_id : {"r1"}, support_worker_id : {"w1"}, property_id : {"pA", "pB"},
         status : {"completed", "cancelled", "planned"}, duration_minutes : {60},
         session_date : {DayNumber(2024, 2, 1), DayNumber(2024, 3, 1)}])]
\* one worker
WorkerStores ==
    [residents : { {} },
     properties : { {} },
     workers : { { [id |-> "w1", is_active |-> a, max_hours_per_month |-> h] } :
                 a \in BOOLEAN, h \in {0, 10} },
     sessions : sessionTables(
        [resident_id : {"r1", "r2"}, support_worker_id : {"w1", "w2"},
         property_id : {"pA"},
         status : {"completed", "cancelled"}, duration_minutes : {60},
         session_date : {DayNumber(2024, 2, 1), DayNumber(2024, 2, 2),
                         DayNumber(2024, 3, 1)}])]

\* the rows of the export: names with a double quote, a comma, a line break
CsvResidents ==
    [first_name : { <<"a">>, <<"a", Quote>>, <<Comma>>, <<"a", Newline, "b">>,
                    <<Quote, "a", Quote>> },
     last_name : { <<"b">> },
     property_name : { <<>>, <<"p">> },
     monthly_support_hours : {2},
     hours_used : [number : BOOLEAN, tenths : {15}],
     utilization_rate : { <<"75.0">> },
     remaining_hours : {5}]
CsvData ==
    UNION { [residents : [1..n -> CsvResidents]] : n \in 0..MaxRows }

ReportCalls ==
    [op : {"generateCSV"}, data : CsvData]
    \cup [op : {"getMonthlyUtilization"}, store : UtilizationStores]
    \cup [op : {"getPropertyUtilization"}, store : PropertyStores]
    \cup [op : {"getWorkerPerformanceDetail"}, store : WorkerStores]

InitReports ==
    /\ sessions = <<>>
    /\ nextId = 1
    /\ pc = [p \in Procs |-> "idle"]
    /\ req = [p \in Procs |-> NoBody]
    /\ response = NoResponse
    /\ calendar = NoCalendar
    /\ report \in [call : ReportCalls, done : {FALSE}]
    /\ AdminIdle

Report(result) ==
    /\ report' = [call |-> report.call, done |-> TRUE, result |-> result]
    /\ UNCHANGED <<sessions, nextId, pc, req, response, calendar, adminVars>>

MonthlyUtilization ==
    /\ ~report.done /\ report.call.op = "getMonthlyUtilization"
    /\ Report(getMonthlyUtilization(report.call.store, ReportYear, ReportMonth))
PropertyUtilization ==
    /\ ~report.done /\ report.call.op = "getPropertyUtilization"
    /\ Report(getPropertyUtilization(report.call.store, ReportYear, ReportMonth))
WorkerPerformanceDetail ==
    /\ ~report.done /\ report.call.op = "getWorkerPerformanceDetail"
    /\ Report(getWorkerPerformanceDetail(report.call.store, ReportYear, ReportMonth))

ExportCSV ==
    /\ ~report.done /\ report.call.op = "generateCSV"
    /\ Report(generateCSV(report.call.data))

NextReports ==
    \/ ExportCSV
    \/ MonthlyUtilization
    \/ PropertyUtilization
    \/ WorkerPerformanceDetail

SpecReports == InitReports /\ [][NextReports]_vars

\* ------------------------------------------------------------- calendar properties
Answered(op) == calendar.done /\ calendar.call.op = op
\* the Sunday on or before the 1st of a month
GridFirstDay(year, month) ==
    DayNumber(year, month, 1) - Weekday(DayNumber(year, month, 1))
\* the day cell day of row week of the monthly grid is to show
GridDay(year, month, week, day) == GridFirstDay(year, month) + (week - 1) * 7 + (day - 1)
InMonth(n, year, month) == YearOf(n) = year /\ MonthOf(n) = month

\* C11: generateMonthlyCalendar returns 6 rows of 7 cells showing 42 consecutive
\* dates from the Sunday on or before the 1st of the month; isCurrentMonth is
\* true exactly on the days of the month, and each day of the month is shown by
\* exactly one cell.
C11_MonthlyGridShape ==
    Answered("generateMonthlyCalendar") =>
        LET year == calendar.call.year
            month == calendar.call.month
            weeks == calendar.result.weeks
        IN  /\ DOMAIN weeks = 1..6
            /\ \A w \in 1..6 : DOMAIN weeks[w] = 1..7
            /\ \A w \in 1..6, d \in 1..7 :
                 /\ weeks[w][d].date = DayOf(GridDay(year, month, w, d))
                 /\ weeks[w][d].isCurrentMonth = InMonth(GridDay(year, month, w, d), year, month)
            /\ \A n \in 1..DaysInMonth(year, month) :
                 Cardinality({ c \in (1..6) \X (1..7) :
                     weeks[c[1]][c[2]].isCurrentMonth /\ weeks[c[1]][c[2]].date = n }) = 1

\* February 2024: the first cell is Sunday 28 January, and the 29th is shown
C11_Witness ==
    /\ Answered("generateMonthlyCalendar")
    /\ calendar.call.year = 2024 /\ calendar.call.month = 2
    /\ calendar.result.weeks[1][1].date = 28
    /\ ~calendar.result.weeks[1][1].isCurrentMonth
    /\ calendar.result.weeks[1][5].date = 1
    /\ calendar.result.weeks[5][5].date = 29 /\ calendar.result.weeks[5][5].isCurrentMonth

\* the cells of a grid whose key and display disagree
KeyNamesDisplayedDay(cell) == cell.fullDate[3] = cell.date

\* C12: in every time zone of the server each cell's fullDate names the
\* calendar date the cell displays (its day of month, and for the monthly grid
\* its isCurrentMonth flag), and the session query's range starts and ends on
\* the first and last date of the page.
C12_KeysAndRangeOnTheCalendarDate ==
    /\ Answered("generateMonthlyCalendar") =>
         \A w \in 1..6, d \in 1..7 :
            /\ KeyNamesDisplayedDay(calendar.result.weeks[w][d])
            /\ calendar.result.weeks[w][d].isCurrentMonth
                 = (calendar.result.weeks[w][d].fullDate[1] = calendar.call.year
                    /\ calendar.result.weeks[w][d].fullDate[2] = calendar.call.month)
    /\ Answered("generateWeeklyCalendar") =>
         \A i \in 1..7 : KeyNamesDisplayedDay(calendar.result.days[i])
    /\ Answered("GET /calendar") =>
         /\ calendar.result.queryParams[1]
              = DateString(PageDays(calendar.call.tz, calendar.call.now, calendar.call.query)[1])
         /\ calendar.result.queryParams[2]
              = DateString(PageDays(calendar.call.tz, calendar.call.now, calendar.call.query)[2])

\* the rows of a call on day n, in input order
RowsOn(rows, n) == SelectSeq(rows, LAMBDA s : s.session_date = n)

\* C13: each cell of the monthly and weekly grids holds exactly the input
\* sessions whose session_date is the cell's date, in input order; the cell's
\* date is read as the date its key names or, failing that for the whole grid,
\* as the date it displays.
C13_CellsHoldTheirDates ==
    /\ Answered("generateMonthlyCalendar") =>
         \/ \A w \in 1..6, d \in 1..7 :
               calendar.result.weeks[w][d].sessions
                 = RowsOn(calendar.call.rows, DayNamed(calendar.result.weeks[w][d].fullDate))
         \/ \A w \in 1..6, d \in 1..7 :
               calendar.result.weeks[w][d].sessions
                 = RowsOn(calendar.call.rows,
                          GridDay(calendar.call.year, calendar.call.month, w, d))
    /\ Answered("generateWeeklyCalendar") =>
         \/ \A i \in 1..7 :
               calendar.result.days[i].sessions
                 = RowsOn(calendar.call.rows, DayNamed(calendar.result.days[i].fullDate))
         \/ \A i \in 1..7 :
               calendar.result.days[i].sessions
                 = RowsOn(calendar.call.rows,
                          LocalDay(calendar.call.tz, calendar.call.startDate) + i - 1)

\* the half-hour labels 09:00 .. 18:00
HalfHours == [k \in 1..19 |-> SlotLabel(9 + ((k - 1) \div 2), 30 * ((k - 1) % 2))]

\* C14: the weekly page has 7 day cells on consecutive dates starting on a
\* Sunday, whatever anchor the route was given, and the 19 half-hour labels
\* 09:00 .. 18:00.
C14_WeekStartsOnSunday ==
    (Answered("GET /calendar") /\ calendar.result.view = "weekly") =>
        LET days == calendar.result.calendarData.days
        IN  /\ DOMAIN days = 1..7
            /\ days[1].dayName = 0
            /\ Weekday(DayNamed(days[1].fullDate)) = 0
            /\ \A i \in 1..6 :
                 DayNamed(days[i + 1].fullDate) = DayNamed(days[i].fullDate) + 1
            /\ calendar.result.calendarData.timeSlots = HalfHours

\* the hourly labels 08:00 .. 19:00
WholeHours == [k \in 1..12 |-> SlotLabel(7 + k, 0)]
\* seq holds the members of sel, each once, and no other
HoldsExactly(seq, sel) ==
    /\ Len(seq) = Len(sel)
    /\ \A i \in 1..Len(sel) : \E j \in 1..Len(seq) : seq[j] = sel[i]

\* C15: the daily calendar holds exactly the input sessions of the requested
\* date (the date of the Date passed in, in UTC or in local time), ordered by
\* non-decreasing start_time, and the 12 hourly labels 08:00 .. 19:00.
C15_DailySessionsOfTheDate ==
    Answered("generateDailyCalendar") =>
        /\ \/ HoldsExactly(calendar.result.sessions,
                           RowsOn(calendar.call.rows, calendar.call.date \div 24))
           \/ HoldsExactly(calendar.result.sessions,
                           RowsOn(calendar.call.rows,
                                  LocalDay(calendar.call.tz, calendar.call.date)))
        /\ \A i \in 1..(Len(calendar.result.sessions) - 1) :
              calendar.result.sessions[i].start_time
                <= calendar.result.sessions[i + 1].start_time
        /\ calendar.result.timeSlots = WholeHours

\* C16: generateNavigation steps the monthly view by one month with the year
\* rolling over, the weekly view by 7 days and the daily view by 1 day.
C16_NavigationSteps ==
    Answered("generateNavigation") =>
        /\ calendar.call.view = "monthly" =>
             /\ calendar.result.prev
                  = IF calendar.call.month = 1
                    THEN [year |-> calendar.call.year - 1, month |-> 12]
                    ELSE [year |-> calendar.call.year, month |-> calendar.call.month - 1]
             /\ calendar.result.next
                  = IF calendar.call.month = 12
                    THEN [year |-> calendar.call.year + 1, month |-> 1]
                    ELSE [year |-> calendar.call.year, month |-> calendar.call.month + 1]
        /\ calendar.call.view = "weekly" =>
             /\ calendar.result.prev.week = DateString(DayNamed(calendar.call.week) - 7)
             /\ calendar.result.next.week = DateString(DayNamed(calendar.call.week) + 7)
        /\ (calendar.call.view = "daily" /\ calendar.call.date # NoDate) =>
             /\ calendar.result.prev.date = DateString(DayNamed(calendar.call.date) - 1)
             /\ calendar.result.next.date = DateString(DayNamed(calendar.call.date) + 1)
\* ------------------------------------------------------------- report properties
Reported(op) == report.done /\ report.call.op = op
\* the first and the last day of the report month
ReportFirstDay == DayNumber(ReportYear, ReportMonth, 1)
ReportLastDay == DayNumber(ReportYear, ReportMonth, DaysInMonth(ReportYear, ReportMonth))
RECURSIVE TotalMinutes(_)
TotalMinutes(rows) ==
    IF rows = {} THEN 0
    ELSE (CHOOSE s \in rows : TRUE).duration_minutes
         + TotalMinutes(rows \ {CHOOSE s \in rows : TRUE})
\* the completed sessions of a resident that fall within the report month
CompletedOf(r) ==
    {s \in report.call.store.sessions :
        /\ s.resident_id = r.id
        /\ s.status = "completed"
        /\ ReportFirstDay <= s.session_date /\ s.session_date <= ReportLastDay}

\* C17: getMonthlyUtilization gives, for each active resident, hours_used equal
\* to the minutes of the resident's completed sessions of the month divided by
\* 60, remaining_hours equal to the allocation minus hours_used (negative when
\* over the allocation), and utilization_rate equal to used / allocation * 100
\* rounded to one decimal.
C17_ResidentUtilization ==
    Reported("getMonthlyUtilization") =>
        /\ DOMAIN report.result
             = {r.id : r \in {r \in report.call.store.residents : r.is_active}}
        /\ \A r \in {r \in report.call.store.residents : r.is_active} :
            /\ report.result[r.id].hours_used = TotalMinutes(CompletedOf(r))
            /\ report.result[r.id].remaining_hours
                 = r.monthly_support_hours * 60 - TotalMinutes(CompletedOf(r))
            /\ r.monthly_support_hours > 0 =>
                 /\ report.result[r.id].utilization_rate.finite
                 /\ report.result[r.id].utilization_rate.tenths
                      = (2 * 1000 * TotalMinutes(CompletedOf(r))
                           + r.monthly_support_hours * 60)
                        \div (2 * r.monthly_support_hours * 60)
\* 90 completed minutes against 2 hours: 1.5 used, 0.5 remaining, 75.0 per cent;
\* and a resident over the allocation, whose remaining hours are negative
C17_Witness ==
    /\ Reported("getMonthlyUtilization")
    /\ Cardinality(report.call.store.sessions) = 2
    /\ "r1" \in DOMAIN report.result
    /\ report.result["r1"].remaining_hours < 0
    /\ report.result["r2"].hours_used = 90
    /\ report.result["r2"].remaining_hours = 30
    /\ report.result["r2"].utilization_rate = [finite |-> TRUE, tenths |-> 750]
\* C18: no report ratio divides by zero: the utilisation of a resident or a
\* worker whose allocation is 0, the occupancy of a property whose capacity is
\* 0, the completion rate of a worker without sessions and the average hours
\* per working day of a worker without working days are all 0.
C18_RatiosGuarded ==
    /\ Reported("getMonthlyUtilization") =>
         \A id \in DOMAIN report.result :
            /\ report.result[id].utilization_rate.finite
            /\ report.result[id].monthly_support_hours = 0
                 => report.result[id].utilization_rate = Zero
    /\ Reported("getPropertyUtilization") =>
         \A id \in DOMAIN report.result :
            /\ report.result[id].occupancy_rate.finite
            /\ report.result[id].max_capacity = 0
                 => report.result[id].occupancy_rate = Zero
    /\ Reported("getWorkerPerformanceDetail") =>
         \A id \in DOMAIN report.result :
            /\ report.result[id].utilization_rate.finite
            /\ report.result[id].completion_rate.finite
            /\ report.result[id].avg_hours_per_day.finite
            /\ report.result[id].max_hours_per_month = 0
                 => report.result[id].utilization_rate = Zero
            /\ report.result[id].total_sessions = 0
                 => report.result[id].completion_rate = Zero
            /\ report.result[id].working_days = 0
                 => report.result[id].avg_hours_per_day = Zero
\* a worker with an allocation of 0 who has worked, and whose rate is 0
C18_Witness ==
    /\ Reported("getWorkerPerformanceDetail")
    /\ "w1" \in DOMAIN report.result
    /\ report.result["w1"].max_hours_per_month = 0
    /\ report.result["w1"].hours_worked > 0
    /\ report.result["w1"].working_days = 2
    /\ report.result["w1"].utilization_rate = Zero
    /\ report.result["w1"].completion_rate = [finite |-> TRUE, tenths |-> 1000]

\* the sessions of a property that fall within the report month
SessionsAt(p) ==
    {s \in report.call.store.sessions :
        /\ s.property_id = p.id
        /\ ReportFirstDay <= s.session_date /\ s.session_date <= ReportLastDay}
\* C19: getPropertyUtilization gives, for each active property, the number of
\* its sessions of the month, the numbers of the completed and the cancelled
\* ones, the completed minutes divided by 60, and the number of its distinct
\* active residents, whatever the number of active residents.
C19_PropertyCounts ==
    Reported("getPropertyUtilization") =>
        \A p \in {p \in report.call.store.properties : p.is_active} :
            /\ p.id \in DOMAIN report.result
            /\ report.result[p.id].current_residents
                 = Cardinality({r \in report.call.store.residents :
                                   r.property_id = p.id /\ r.is_active})
            /\ report.result[p.id].total_sessions = Cardinality(SessionsAt(p))
            /\ report.result[p.id].completed_sessions
                 = Cardinality({s \in SessionsAt(p) : s.status = "completed"})
            /\ report.result[p.id].cancelled_sessions
                 = Cardinality({s \in SessionsAt(p) : s.status = "cancelled"})
            /\ report.result[p.id].total_hours
                 = TotalMinutes({s \in SessionsAt(p) : s.status = "completed"})
\* A reader of comma-separated values: a field between double quotes may hold
\* commas, line breaks and doubled double quotes. Its state holds the records
\* read so far, and is not ok once the text is not well formed.
readStart ==
    [ok |-> TRUE, mode |-> "start", field |-> <<>>, record |-> <<>>, records |-> <<>>]
readStep(st, c) ==
    IF ~st.ok THEN st
    ELSE IF st.mode = "quoted"
    THEN IF c = Quote THEN [st EXCEPT !.mode = "quoteSeen"]
         ELSE [st EXCEPT !.field = Append(st.field, c)]
    ELSE IF c = Comma
    THEN [st EXCEPT !.mode = "start", !.field = <<>>,
                    !.record = Append(st.record, st.field)]
    ELSE IF c = Newline
    THEN [st EXCEPT !.mode = "start", !.field = <<>>, !.record = <<>>,
                    !.records = Append(st.records, Append(st.record, st.field))]
    ELSE IF c = Quote
    THEN IF st.mode = "start" THEN [st EXCEPT !.mode = "quoted"]
         ELSE IF st.mode = "quoteSeen"
         THEN [st EXCEPT !.mode = "quoted", !.field = Append(st.field, Quote)]
         ELSE [st EXCEPT !.ok = FALSE]
    ELSE IF st.mode = "quoteSeen" THEN [st EXCEPT !.ok = FALSE]
    ELSE [st EXCEPT !.mode = "bare", !.field = Append(st.field, c)]
\* the state after text[lo..hi], read from left to right
RECURSIVE readFrom(_, _, _, _)
readFrom(text, lo, hi, st) ==
    IF ~st.ok \/ lo > hi THEN st
    ELSE IF lo = hi THEN readStep(st, text[lo])
    ELSE readFrom(text, (lo + hi) \div 2 + 1, hi,
                  readFrom(text, lo, (lo + hi) \div 2, st))
readEnd(st) ==
    IF ~st.ok \/ st.mode = "quoted" THEN [ok |-> FALSE, records |-> <<>>]
    ELSE [ok |-> TRUE, records |-> Append(st.records, Append(st.record, st.field))]
readCSV(text) == readEnd(readFrom(text, 1, Len(text), readStart))

\* C20: generateCSV returns the header line and one line for each resident,
\* each of six quoted fields, which a reader of comma-separated values reads
\* back as the six original values, whatever the names hold.
C20_CsvReadsBack ==
    Reported("generateCSV") =>
        /\ report.result.thrown = "none"
        /\ readCSV(report.result.text)
             = [ok |-> TRUE,
                records |-> [i \in 1..(1 + Len(report.call.data.residents)) |->
                                IF i = 1 THEN csvHeaders
                                ELSE csvRow(report.call.data.residents[i - 1])]]
\* ------------------------------------------------------------- calendar page properties
\* the session lists of the cells of a grid
CellLists(grid) ==
    IF "weeks" \in DOMAIN grid
    THEN [c \in 1..42 |-> grid.weeks[((c - 1) \div 7) + 1][((c - 1) % 7) + 1].sessions]
    ELSE IF "days" \in DOMAIN grid
    THEN [c \in 1..7 |-> grid.days[c].sessions]
    ELSE IF "sessions" \in DOMAIN grid
    THEN <<grid.sessions>>
    ELSE <<>>
\* the number of places of the lists that hold row s
PlacesOf(lists, s) ==
    Cardinality({ c \in {x \in (DOMAIN lists) \X (1..MaxRows) : x[2] <= Len(lists[x[1]])} :
                    lists[c[1]][c[2]] = s })

\* C26: for every query the calendar route accepts a grid is built, every
\* session the date-range query returned is in exactly one cell of it (or in
\* the day's list), and the navigation has a prev and a next anchor; also for
\* the daily view without a date and for a view other than the three.
C26_EveryQueryGetsAPage ==
    Answered("GET /calendar") =>
        /\ calendar.result.calendarData # Undefined
        /\ \A i \in 1..Len(calendar.result.sessions) :
              PlacesOf(CellLists(calendar.result.calendarData),
                       calendar.result.sessions[i]) = 1
        /\ {"prev", "next"} \subseteq DOMAIN calendar.result.navigation

\* the navigation of an anchor that generateNavigation returned
NavigationOf(anchor) ==
    generateNavigation(calendar.call.tz, calendar.call.view,
        Param(anchor, "year", calendar.call.year),
        Param(anchor, "month", calendar.call.month),
        Param(anchor, "week", NoDate), Param(anchor, "date", NoDate))

\* C27: navigation is a round trip: next of prev and prev of next of an anchor
\* are the anchor, for monthly anchors (whose months stay within 1..12) and
\* for weekly and daily anchor dates.
C27_NavigationRoundTrip ==
    (Answered("generateNavigation") /\ "prev" \in DOMAIN calendar.result) =>
        /\ NavigationOf(calendar.result.prev).next = calendar.result.current
        /\ NavigationOf(calendar.result.next).prev = calendar.result.current
        /\ calendar.call.view = "monthly" =>
             /\ calendar.result.prev.month \in 1..12
             /\ calendar.result.next.month \in 1..12
\* ------------------------------------------------------------- create frame
\* C29: a create request rejected by the field validation, by the start/end
\* check or by the conflict check leaves the stored sessions as they were; an
\* accepted create adds exactly one session, with the fields of the body and
\* with status planned when the body has none, and changes no other session.
C29_CreateFrame ==
    [][\A p \in Procs :
          /\ (pc[p] = "received" /\ pc'[p] = "idle") =>
                /\ CreateRejects(req[p])
                /\ response'.kind \in {"invalid", "order", "conflict"}
                /\ sessions' = sessions
          /\ (pc[p] = "received" /\ pc'[p] = "insert") =>
                /\ ~CreateRejects(req[p])
                /\ sessions' = sessions
          /\ (pc[p] = "insert" /\ pc'[p] = "idle") =>
                /\ Cardinality(DOMAIN sessions' \ Stored) = 1
                /\ \A id \in Stored : id \in DOMAIN sessions' /\ sessions'[id] = sessions[id]
                /\ \A id \in DOMAIN sessions' \ Stored :
                      /\ response' = [op |-> "create", kind |-> "redirect", id |-> id]
                      /\ sessions'[id]
                           = Row(req[p], IF req[p].status = NoStatus THEN "planned"
                                         ELSE req[p].status)
                      /\ req[p].status = NoStatus => sessions'[id].status = "planned"]_vars
\* a create was refused for a conflict after another was accepted and stored
\* as planned: the table holds that one session and nothing else
C29_Witness ==
    /\ response = [op |-> "create", kind |-> "conflict", id |-> NoId]
    /\ Stored = {1}
    /\ sessions[1].status = "planned"
    /\ nextId = 2
\* ------------------------------------------------------------- failure properties
\* C21: when a repository call has failed during a create, update or delete
\* request, the response sent reports a failure: it is not a success result,
\* nor the plain redirect to the session list that a success gets.
C21_FailureIsReported ==
    (handler.op # "none" /\ handler.at = "done" /\ handler.failed) =>
        \A i \in 1..Len(handler.sent) : handler.sent[i] \in FailureKinds

\* C28: every create, update and delete request ends with exactly one
\* response, whichever repository calls fail, those of the error branch too.
C28_ExactlyOneResponse ==
    [](handler.op # "none" => <>(handler.at = "done" /\ Len(handler.sent) = 1))
\* ------------------------------------------------------------- access properties
RecordTables == {"properties", "residents", "support_workers", "support_sessions"}
\* C22: no request without a logged-in user and no request of a user whose
\* role is not admin changes a property, resident, support worker or session:
\* every route that writes one of these tables has requireAdmin in front of
\* it, and requireAdmin calls next() only for a session user with role admin.
C22_OnlyAdminsWrite ==
    /\ \A route \in Routes : route.writes \in RecordTables => route.guard = "requireAdmin"
    /\ gate.done =>
        /\ gate.wrote \cap RecordTables # {} =>
              /\ gate.call.sessionUser # NoSessionUser
              /\ gate.call.sessionUser.role = "admin"
        /\ (gate.call.route.guard = "requireAdmin" /\ gate.answer = "next") =>
              /\ gate.call.sessionUser # NoSessionUser
              /\ gate.call.sessionUser.role = "admin"
\* a logged-in viewer posts a session delete and is refused; nothing is written
C22_Witness ==
    /\ gate.done
    /\ gate.call.route = Route("sessions", "POST", "/:id/delete", "requireAdmin",
                               "support_sessions")
    /\ gate.call.sessionUser = [role |-> "viewer"]
    /\ gate.answer = "403_page"
    /\ gate.wrote = {}
\* ------------------------------------------------------------- login properties
\* a step of the login handler sets a lock
LockSet == user'.locked_until # user.locked_until /\ user'.locked_until # NullTime

\* C23: from failed_login_attempts = 0, wrong passwords lock the account, until
\* 15 minutes from then, on the 5th consecutive wrong attempt and not earlier;
\* while locked_until is in the future every attempt is refused, one with the
\* right password too; a successful login sets failed_login_attempts to 0 and
\* clears locked_until.
C23_LockOnFifthAttempt ==
    [][/\ LockSet => /\ login.streak >= 5
                     /\ user'.locked_until = clock + LockMinutes
       /\ (login.request["p1"].at = "incremented" /\ login.streak = 5 /\ clock' = clock)
             => LockSet
       /\ (login.request["p1"].at = "idle" /\ isLocked(user, clock) /\ clock' = clock) =>
             /\ response'.kind = "locked"
             /\ user' = user
             /\ login' = login
       /\ response'.kind = "dashboard" /\ response' # response =>
             /\ user'.failed_login_attempts = 0
             /\ user'.locked_until = NullTime]_vars
\* five wrong passwords in a row: the fifth has locked the account
C23_Witness ==
    /\ login.streak = 5
    /\ user.failed_login_attempts = 5
    /\ user.locked_until = clock + LockMinutes
    /\ response = [op |-> "login", kind |-> "locked_now", id |-> NoId]

\* C24: after a lock has expired, with no successful login since, the user has
\* 5 wrong-password attempts again before the account is locked again: one
\* wrong password after the expiry does not lock it.
C24_FiveAttemptsAfterExpiry ==
    [][LockSet => login.sinceLock >= 5]_vars

\* C25: under every interleaving of login requests for one user no more than 5
\* wrong passwords are evaluated, between two successful logins, without the
\* account being locked: once the requests are answered, fewer than 5 wrong
\* passwords have been evaluated since the last lock or successful login.
C25_LockNeverMissed ==
    (\A p \in Procs : login.request[p].at = "idle") => login.sinceLock < 5

\* C30: after every sequence of property delete, resident create and resident
\* edit requests every active resident belongs to an active property.
C30_ActiveResidentInActiveProperty ==
    \A i \in DOMAIN residents :
        residents[i].is_active => properties[residents[i].property_id].is_active
====
